---- MODULE Spec2Model ----
(***************************************************************************)
(* Timetable synthesis engine of src/timetable.py: the population          *)
(* initializer, the hard-constraint validator, the fitness evaluator, the  *)
(* genetic operators and the evolution driver, as a state machine.         *)
(***************************************************************************)
EXTENDS Integers, Sequences, FiniteSets, TLC

(* ------------------------------ bounds -------------------------------- *)
\* The calendar, the population size and the generation limit are scaled
\* down; the code's values are 5 days, 4 periods, 200 and 1000.
NumDays == 2
NumSlots == 2
POPULATION_SIZE == 2
GENERATIONS == 2
LONG_GENERATIONS == 22
MaxSelPopulation == 3
MaxSelSize == 3
MaxParentEntries == 2
MaxValidEntries == 3
GA_POPULATION_SIZE == 10
GA_NumDays == 1
GA_NumSlots == 3

(* ------------------------- program constants --------------------------- *)
max_attempts == 200
SLOT_ENTRY_CAP == 10
LECTURER_DAILY_CAP_INIT == 8
FACULTY_DAILY_MAX_HOURS == 8
WEEKLY_MODULE_HOURS == 4
SESSIONS_PER_MODULE == WEEKLY_MODULE_HOURS \div 2

DAYS == 1..NumDays
TIME_SLOTS == 1..NumSlots

\* Python's None in an index cell; module codes are strings.
None == "<None>"

\* Python truthiness of an index cell value (None and "" are falsy).
Truthy(x) == x # None /\ x # ""

(* ------------------------------ helpers -------------------------------- *)
RECURSIVE SumSeq(_)
SumSeq(s) == IF s = <<>> THEN 0 ELSE Head(s) + SumSeq(Tail(s))

Range(s) == {s[j] : j \in 1..Len(s)}

RECURSIVE Flatten(_)
Flatten(ss) == IF ss = <<>> THEN <<>> ELSE Head(ss) \o Flatten(Tail(ss))

HasDuplicate(s) == \E a, b \in 1..Len(s) : a < b /\ s[a] = s[b]

(* ------------------------------ inputs --------------------------------- *)
GCS == <<"CS", "1.1">>
GSWE == <<"SWE", "1.1">>

Mod(code, hours, groups) == [code |-> code, hours |-> hours, target_groups |-> groups]
Lec(id, name, mods, md, mw) ==
    [id |-> id, name |-> name, modules |-> mods, max_daily |-> md, max_weekly |-> mw]
Room(name, cap, progs) == [name |-> name, capacity |-> cap, allowed_programs |-> progs]

\* Scenario A of the spec: one module, one lecturer, one room, one group.
DataA ==
    [modules |-> << Mod("M1", 4, <<GCS>>) >>,
     lecturers |-> << Lec("L1", "Ann", {"M1"}, 4, 10) >>,
     rooms |-> << Room("R1", 50, {}) >>,
     students_per_group |-> (GCS :> 30)]

\* Scenario B: M2 needs sessions and no lecturer is qualified for it.
DataB ==
    [modules |-> << Mod("M1", 4, <<GCS>>), Mod("M2", 4, <<GSWE>>) >>,
     lecturers |-> << Lec("L1", "Ann", {"M1"}, 4, 10) >>,
     rooms |-> << Room("R1", 50, {}), Room("R2", 50, {}) >>,
     students_per_group |-> (GCS :> 30 @@ GSWE :> 20)]

\* Scenario C: modules that share a target group, two sessions each.
DataC ==
    [modules |-> << Mod("M1", 4, <<GCS>>), Mod("M2", 4, <<GCS, GSWE>>),
                    Mod("M3", 4, <<GCS>>) >>,
     lecturers |-> << Lec("L1", "Ann", {"M1", "M3"}, 4, 10),
                      Lec("L2", "Bob", {"M2"}, 4, 10) >>,
     rooms |-> << Room("R1", 60, {}) >>,
     students_per_group |-> (GCS :> 30 @@ GSWE :> 20)]

\* Scenario D: the only room large enough is restricted to CS, the module
\* targets SWE.
DataD ==
    [modules |-> << Mod("M1", 4, <<GSWE>>) >>,
     lecturers |-> << Lec("L1", "Ann", {"M1"}, 4, 10) >>,
     rooms |-> << Room("R1", 50, {"CS"}), Room("R2", 20, {}) >>,
     students_per_group |-> (GSWE :> 30)]

\* A full calendar with shared cells: MB serves both groups and takes the
\* large room in one period of each day; MX must take the other period and
\* MZ must share it, which needs the large room free, so the candidate is
\* feasible only when MX took the small room on both days.  Ann is capped
\* at one session a day and three a week.  One module has no code.
DataS ==
    [modules |-> << Mod("MB", 4, <<GCS, GSWE>>), Mod("MX", 4, <<GCS>>),
                    Mod("MZ", 4, <<GSWE>>), Mod("", 4, <<GCS>>) >>,
     lecturers |-> << Lec("L1", "Ann", {"MB", "MX"}, 1, 3),
                      Lec("L2", "Bob", {"MZ"}, 4, 10) >>,
     rooms |-> << Room("R1", 30, {"CS", "SWE"}), Room("R2", 20, {"CS"}) >>,
     students_per_group |-> (GCS :> 20 @@ GSWE :> 10)]

Inputs == {DataA, DataB, DataC, DataD, DataS}

(* --------------------------- data accessors ---------------------------- *)
\* module.get('hours', WEEKLY_MODULE_HOURS)
ModuleHours(m) == IF "hours" \in DOMAIN m THEN m.hours ELSE WEEKLY_MODULE_HOURS

\* module.get('hours', WEEKLY_MODULE_HOURS) // 2
RequiredSessions(m) == ModuleHours(m) \div 2

\* Faulty variant: the headcount is looked up as (level, program), a key the
\* table does not have.
GroupSize_KeySwapped(d, g) ==
    IF <<g[2], g[1]>> \in DOMAIN d.students_per_group
    THEN d.students_per_group[<<g[2], g[1]>>] ELSE 0

\* data.get('students_per_group', {}).get((program, level), 0)
GroupSize(d, g) ==
    IF g \in DOMAIN d.students_per_group THEN d.students_per_group[g] ELSE 0

\* sum of the headcounts of a module's target groups
TotalStudents(d, m) ==
    SumSeq([j \in 1..Len(m.target_groups) |-> GroupSize(d, m.target_groups[j])])

\* next((m for m in data['modules'] if m['code'] == code), None): index or 0
ModuleIdx(d, code) ==
    IF \E j \in 1..Len(d.modules) : d.modules[j].code = code
    THEN CHOOSE j \in 1..Len(d.modules) :
            /\ d.modules[j].code = code
            /\ \A h \in 1..(j - 1) : d.modules[h].code # code
    ELSE 0

\* next((l for l in data['lecturers'] if l['name'] == name), None): index or 0
LecturerIdx(d, name) ==
    IF \E j \in 1..Len(d.lecturers) : d.lecturers[j].name = name
    THEN CHOOSE j \in 1..Len(d.lecturers) :
            /\ d.lecturers[j].name = name
            /\ \A h \in 1..(j - 1) : d.lecturers[h].name # name
    ELSE 0

\* next((r for r in data['rooms'] if r['name'] == name), None): index or 0
RoomIdx(d, name) ==
    IF \E j \in 1..Len(d.rooms) : d.rooms[j].name = name
    THEN CHOOSE j \in 1..Len(d.rooms) :
            /\ d.rooms[j].name = name
            /\ \A h \in 1..(j - 1) : d.rooms[h].name # name
    ELSE 0

LecturerIds(d) == {d.lecturers[j].id : j \in 1..Len(d.lecturers)}
RoomNames(d) == {d.rooms[j].name : j \in 1..Len(d.rooms)}
ModuleCodes(d) == {d.modules[j].code : j \in 1..Len(d.modules)}

(* ------------------------------ schedule ------------------------------- *)
\* The timetable dict built at the start of every candidate.
EmptyTimetable(d) ==
    [slots |-> [day \in DAYS |-> [slot \in TIME_SLOTS |-> <<>>]],
     lecturer_slots |->
        [id \in LecturerIds(d) |-> [day \in DAYS |-> [slot \in TIME_SLOTS |-> None]]],
     room_slots |->
        [r \in RoomNames(d) |-> [day \in DAYS |-> [slot \in TIME_SLOTS |-> None]]]]

Entry(code, lecturer, room) == [module |-> code, lecturer |-> lecturer, room |-> room]

\* every (day, slot, position) of an entry of t
EntryPlaces(t) ==
    {p \in DAYS \X TIME_SLOTS \X (1..SLOT_ENTRY_CAP) : p[3] <= Len(t.slots[p[1]][p[2]])}

EntryAt(t, p) == t.slots[p[1]][p[2]][p[3]]

\* any(t and t['module'] == code for t in slot_entries)
CellHasModule(t, day, slot, code) ==
    \E j \in 1..Len(t.slots[day][slot]) : t.slots[day][slot][j].module = code

\* the (day, period) cells that hold an entry of the module
ModuleCells(t, code) ==
    {c \in DAYS \X TIME_SLOTS : CellHasModule(t, c[1], c[2], code)}

\* sum(1 for s in TIME_SLOTS if any(e['lecturer'] == name for e in slots[day][s]))
LecturerDailyHours(t, day, name) ==
    Cardinality({s \in TIME_SLOTS :
        \E j \in 1..Len(t.slots[day][s]) : t.slots[day][s][j].lecturer = name})

(* ----------------------- population initializer ------------------------ *)
\* modules_by_group: the groups in order of first appearance
RECURSIVE Dedup(_)
Dedup(s) ==
    IF s = <<>> THEN <<>>
    ELSE LET r == Dedup(SubSeq(s, 1, Len(s) - 1))
             x == s[Len(s)]
         IN IF x \in Range(r) THEN r ELSE Append(r, x)

CodedModules(d) == SelectSeq([j \in 1..Len(d.modules) |-> j], LAMBDA j : d.modules[j].code # "")

GroupKeys(d) ==
    Dedup(Flatten([j \in 1..Len(CodedModules(d)) |->
                      d.modules[CodedModules(d)[j]].target_groups]))

\* modules_by_group[g]: the module indices serving g, once per occurrence
ModulesOfGroup(d, g) ==
    Flatten([j \in 1..Len(CodedModules(d)) |->
        LET mi == CodedModules(d)[j]
            tg == d.modules[mi].target_groups
        IN [h \in 1..Cardinality({x \in 1..Len(tg) : tg[x] = g}) |-> mi]])

\* sort key (-hours, -len(target_groups)): a before b
KeyLess(d, a, b) ==
    LET ha == ModuleHours(d.modules[a])
        hb == ModuleHours(d.modules[b])
        la == Len(d.modules[a].target_groups)
        lb == Len(d.modules[b].target_groups)
    IN ha > hb \/ (ha = hb /\ la > lb)

\* list.sort is stable: insert x after every element that is not after it
RECURSIVE InsertSorted(_, _, _)
InsertSorted(d, s, x) ==
    IF s = <<>> THEN <<x>>
    ELSE IF KeyLess(d, x, Head(s)) THEN <<x>> \o s
    ELSE <<Head(s)>> \o InsertSorted(d, Tail(s), x)

RECURSIVE SortModules(_, _)
SortModules(d, s) ==
    IF s = <<>> THEN <<>>
    ELSE InsertSorted(d, SortModules(d, SubSeq(s, 1, Len(s) - 1)), s[Len(s)])

\* The order in which the nested loops of initialize_population visit modules.
WorkList(d) ==
    Flatten([j \in 1..Len(GroupKeys(d)) |->
                SortModules(d, ModulesOfGroup(d, GroupKeys(d)[j]))])

\* student-group conflict of module m with the entries of a cell
HasGroupConflict(d, t, m, day, slot) ==
    \E j \in 1..Len(t.slots[day][slot]) :
        LET oi == ModuleIdx(d, t.slots[day][slot][j].module)
        IN oi # 0 /\ Range(m.target_groups) \cap Range(d.modules[oi].target_groups) # {}

\* available_lecturers of a cell: indices into data['lecturers']
AvailableLecturers(d, t, m, day, slot) ==
    {j \in 1..Len(d.lecturers) :
        /\ m.code \in d.lecturers[j].modules
        /\ ~ \E e \in 1..Len(t.slots[day][slot]) :
                t.slots[day][slot][e].lecturer = d.lecturers[j].name
        /\ ~ (LecturerDailyHours(t, day, d.lecturers[j].name) >= LECTURER_DAILY_CAP_INIT)}

\* headcount of the modules already placed in a cell
CellStudents(d, t, day, slot) ==
    SumSeq([j \in 1..Len(t.slots[day][slot]) |->
        LET oi == ModuleIdx(d, t.slots[day][slot][j].module)
        IN IF oi # 0 THEN TotalStudents(d, d.modules[oi]) ELSE 0])

\* available_rooms of a cell: indices into data['rooms']
AvailableRooms(d, t, m, day, slot) ==
    {j \in 1..Len(d.rooms) :
        /\ ~ \E e \in 1..Len(t.slots[day][slot]) :
                t.slots[day][slot][e].room = d.rooms[j].name
        /\ ~ (TotalStudents(d, m) + CellStudents(d, t, day, slot) > d.rooms[j].capacity)}

\* Faulty variant: a day that already has a session of the module is not
\* skipped.
AvailableSlots_AnyDay(d, t, mds, m) ==
    {c \in DAYS \X TIME_SLOTS :
        /\ ~ (Len(t.slots[c[1]][c[2]]) >= SLOT_ENTRY_CAP)
        /\ ~ HasGroupConflict(d, t, m, c[1], c[2])
        /\ AvailableLecturers(d, t, m, c[1], c[2]) # {}
        /\ AvailableRooms(d, t, m, c[1], c[2]) # {}}

\* available_slots: the cells that pass every check of one attempt
AvailableSlots(d, t, mds, m) ==
    {c \in DAYS \X TIME_SLOTS :
        /\ ~ (mds[m.code][c[1]] >= 1)
        /\ ~ (Len(t.slots[c[1]][c[2]]) >= SLOT_ENTRY_CAP)
        /\ ~ HasGroupConflict(d, t, m, c[1], c[2])
        /\ AvailableLecturers(d, t, m, c[1], c[2]) # {}
        /\ AvailableRooms(d, t, m, c[1], c[2]) # {}}

\* The append to the slot list and the two index updates of one placement.
PlaceEntry(t, day, slot, code, lecturer, room) ==
    [slots |-> [t.slots EXCEPT ![day][slot] = Append(@, Entry(code, lecturer.name, room.name))],
     lecturer_slots |-> [t.lecturer_slots EXCEPT ![lecturer.id][day][slot] = code],
     room_slots |-> [t.room_slots EXCEPT ![room.name][day][slot] = code]]

(* ----------------------- hard-constraint validator --------------------- *)
\* Faulty variant: only the first target group of each module is compared.
CheckGroupConflicts_FirstGroupOnly(d, t) ==
    \A day \in DAYS, slot \in TIME_SLOTS :
        LET es == t.slots[day][slot]
        IN /\ \A j \in 1..Len(es) : ModuleIdx(d, es[j].module) # 0
           /\ ~ HasDuplicate(Flatten([j \in 1..Len(es) |->
                    SubSeq(d.modules[ModuleIdx(d, es[j].module)].target_groups, 1, 1)]))

\* 1. no student group twice in a cell, every module code known
CheckGroupConflicts(d, t) ==
    \A day \in DAYS, slot \in TIME_SLOTS :
        LET es == t.slots[day][slot]
        IN /\ \A j \in 1..Len(es) : ModuleIdx(d, es[j].module) # 0
           /\ ~ HasDuplicate(Flatten([j \in 1..Len(es) |->
                    d.modules[ModuleIdx(d, es[j].module)].target_groups]))

\* 2. no lecturer twice in a cell, daily count within FACULTY_DAILY_MAX_HOURS
CheckLecturerConflicts(d, t) ==
    \A day \in DAYS, slot \in TIME_SLOTS :
        LET es == t.slots[day][slot]
        IN /\ ~ HasDuplicate([j \in 1..Len(es) |-> es[j].lecturer])
           /\ \A j \in 1..Len(es) :
                ~ (LecturerDailyHours(t, day, es[j].lecturer) > FACULTY_DAILY_MAX_HOURS)

\* 3. no room twice in a cell
CheckRoomConflicts(d, t) ==
    \A day \in DAYS, slot \in TIME_SLOTS :
        LET es == t.slots[day][slot]
        IN ~ HasDuplicate([j \in 1..Len(es) |-> es[j].room])

\* 4. the room exists and holds the module's own headcount
CheckRoomCapacity(d, t) ==
    \A day \in DAYS, slot \in TIME_SLOTS :
        LET es == t.slots[day][slot]
        IN \A j \in 1..Len(es) :
            /\ RoomIdx(d, es[j].room) # 0
            /\ ModuleIdx(d, es[j].module) # 0
            /\ ~ (TotalStudents(d, d.modules[ModuleIdx(d, es[j].module)])
                    > d.rooms[RoomIdx(d, es[j].room)].capacity)

\* 5. the lecturer exists and is qualified for the module
CheckLecturerQualifications(d, t) ==
    \A day \in DAYS, slot \in TIME_SLOTS :
        LET es == t.slots[day][slot]
        IN \A j \in 1..Len(es) :
            /\ LecturerIdx(d, es[j].lecturer) # 0
            /\ es[j].module \in d.lecturers[LecturerIdx(d, es[j].lecturer)].modules

\* Faulty variant: the session count is not compared with hours // 2.
CheckModuleHours_DailyOnly(d, t) ==
    \A j \in 1..Len(d.modules) :
        LET m == d.modules[j]
        IN m.code # "" =>
            \A day \in DAYS :
                ~ (Cardinality({c \in ModuleCells(t, m.code) : c[1] = day}) > 1)

\* 6. every coded module has exactly hours // 2 cells, at most one a day
CheckModuleHours(d, t) ==
    \A j \in 1..Len(d.modules) :
        LET m == d.modules[j]
        IN m.code # "" =>
            /\ Cardinality(ModuleCells(t, m.code)) = RequiredSessions(m)
            /\ \A day \in DAYS :
                ~ (Cardinality({c \in ModuleCells(t, m.code) : c[1] = day}) > 1)

validate_hard_constraints(t, d) ==
    /\ CheckGroupConflicts(d, t)
    /\ CheckLecturerConflicts(d, t)
    /\ CheckRoomConflicts(d, t)
    /\ CheckRoomCapacity(d, t)
    /\ CheckLecturerQualifications(d, t)
    /\ CheckModuleHours(d, t)

(* --------------------------- fitness evaluator -------------------------- *)
\* The cells in the order of "for day in DAYS: for slot in TIME_SLOTS".
AllCells ==
    [n \in 1..(NumDays * NumSlots) |->
        <<((n - 1) \div NumSlots) + 1, ((n - 1) % NumSlots) + 1>>]

\* module_slots: the cells of a module, in visiting order
ModuleSlots(t, code) ==
    SelectSeq(AllCells, LAMBDA c : CellHasModule(t, c[1], c[2], code))

Abs(x) == IF x < 0 THEN -x ELSE x

SetMax(S) == CHOOSE x \in S : \A y \in S : y <= x
SetMin(S) == CHOOSE x \in S : \A y \in S : x <= y

\* required_sessions = SESSIONS_PER_MODULE; 100 for every session the
\* module has more or fewer than that
SessionMismatchPenalty(t, code) ==
    LET required_sessions == SESSIONS_PER_MODULE
    IN IF Len(ModuleSlots(t, code)) # required_sessions
       THEN Abs(Len(ModuleSlots(t, code)) - required_sessions) * 100 ELSE 0

\* The penalties of one module: session-count mismatch against
\* SESSIONS_PER_MODULE, same-day sessions, sessions in adjacent periods.
ModulePenalty(t, code) ==
    LET ms == ModuleSlots(t, code)
        mismatch == SessionMismatchPenalty(t, code)
        sameday == IF Cardinality({ms[j][1] : j \in 1..Len(ms)}) < Len(ms)
                   THEN 20 ELSE 0
        adjacent == Cardinality({j \in 1..(Len(ms) - 1) :
                        ms[j][1] = ms[j + 1][1] /\ Abs(ms[j][2] - ms[j + 1][2]) = 1}) * 15
    IN mismatch + sameday + adjacent

\* day_module_counts[day]: module sessions on a day, over all coded modules
DayModuleCount(d, t, day) ==
    SumSeq([j \in 1..Len(CodedModules(d)) |->
        Cardinality({c \in ModuleCells(t, d.modules[CodedModules(d)[j]].code) : c[1] = day})])

\* slot_usage[slot]: module sessions in a period, over all coded modules
SlotUsage(d, t, slot) ==
    SumSeq([j \in 1..Len(CodedModules(d)) |->
        Cardinality({c \in ModuleCells(t, d.modules[CodedModules(d)[j]].code) : c[2] = slot})])

\* (max - min) over the keys a defaultdict(int) holds: the counted ones
SpreadPenalty(counts, weight) ==
    LET used == {x \in Range(counts) : x > 0}
    IN IF used = {} THEN 0 ELSE (SetMax(used) - SetMin(used)) * weight

\* 50 for every entry whose room an earlier entry of the cell already uses
RoomDoubleBookings(t) ==
    SumSeq([n \in 1..Len(AllCells) |->
        LET es == t.slots[AllCells[n][1]][AllCells[n][2]]
        IN Cardinality({j \in 1..Len(es) : \E h \in 1..(j - 1) : es[h].room = es[j].room})])

calculate_fitness(t, d) ==
    1000
    - SumSeq([j \in 1..Len(CodedModules(d)) |->
                ModulePenalty(t, d.modules[CodedModules(d)[j]].code)])
    - SpreadPenalty([day \in DAYS |-> DayModuleCount(d, t, day)], 10)
    - SpreadPenalty([slot \in TIME_SLOTS |-> SlotUsage(d, t, slot)], 5)
    - RoomDoubleBookings(t) * 50

\* Scores: a number, or float('-inf').
Score(n) == [fin |-> TRUE, v |-> n]
NegInf == [fin |-> FALSE, v |-> 0]
ScoreGt(a, b) == a.fin /\ (~ b.fin \/ a.v > b.v)
ScoreGe(a, b) == ~ ScoreGt(b, a)

\* Faulty variant: the first score is taken for the maximum.
MaxScore_First(scores) == scores[1]

\* max(scores)
MaxScore(scores) ==
    scores[CHOOSE j \in 1..Len(scores) : \A h \in 1..Len(scores) : ScoreGe(scores[j], scores[h])]

\* scores.index(x)
IndexOf(scores, x) ==
    CHOOSE j \in 1..Len(scores) : scores[j] = x /\ \A h \in 1..(j - 1) : scores[h] # x

(* ------------------------------ selection ------------------------------ *)
tournament_size == 3

\* Python's None where a timetable is expected
NoTimetable == [none |-> TRUE]

\* Faulty variant: sampling with replacement.
Samples_WithReplacement(valid, m) == [1..m -> valid]

\* The lists random.sample(valid, m) can return: m pairwise distinct elements
\* of valid, in any order.
Samples(valid, m) ==
    {s \in [1..m -> valid] : \A a, b \in 1..m : a # b => s[a] # s[b]}

\* One call of tournament_selection(population, fitness_scores, size), by
\* the branch it takes: the tournament among the valid indices (those that
\* have a score and a non-null individual), won by the first maximum of the
\* sample; with no valid index, a uniform choice among the non-null
\* individuals; with none of those, ValueError.  winner is an index of pop.
TournamentOutcomes(pop, scores, size) ==
    LET valid == {j \in 1..Len(pop) : j <= Len(scores) /\ pop[j] # NoTimetable}
        nonnull == {j \in 1..Len(pop) : pop[j] # NoTimetable}
        m == IF size < Cardinality(valid) THEN size ELSE Cardinality(valid)
    IN IF valid = {}
       THEN IF nonnull = {}
            THEN {[branch |-> "raise", sample |-> <<>>, winner |-> 0]}
            ELSE {[branch |-> "fallback", sample |-> <<>>, winner |-> j] : j \in nonnull}
       ELSE {[branch |-> "tournament", sample |-> s,
              winner |-> LET tournament_fitness == [a \in 1..m |-> scores[s[a]]]
                         IN s[IndexOf(tournament_fitness, MaxScore(tournament_fitness))]] :
                s \in Samples(valid, m)}

\* the indices of the individuals a call with the default size can return
TournamentWinners(pop, scores) ==
    {o.winner : o \in {x \in TournamentOutcomes(pop, scores, tournament_size) :
                            x.branch # "raise"}}

\* The individuals tournament_selection can return.
tournament_selection(pop, scores) ==
    {pop[w] : w \in TournamentWinners(pop, scores)}

(* ------------------------------ crossover ------------------------------ *)
\* Faulty variant: the hours of the module are taken for its sessions.
ModuleRequirement_Hours(d, code) ==
    ModuleHours(d.modules[
        CHOOSE j \in 1..Len(d.modules) :
            d.modules[j].code = code /\ \A h \in (j + 1)..Len(d.modules) : d.modules[h].code # code])

\* module_requirements[code]: a dict comprehension keeps the last module
ModuleRequirement(d, code) ==
    RequiredSessions(d.modules[
        CHOOSE j \in 1..Len(d.modules) :
            d.modules[j].code = code /\ \A h \in (j + 1)..Len(d.modules) : d.modules[h].code # code])

\* The (day, slot, entry) triples crossover visits, in order; source[day]
\* is the parent chosen for the day.
CrossoverItems(source) ==
    Flatten([n \in 1..Len(AllCells) |->
        LET day == AllCells[n][1]
            slot == AllCells[n][2]
            es == source[day].slots[day][slot]
        IN [j \in 1..Len(es) |-> [day |-> day, slot |-> slot, entry |-> es[j]]]])

\* sessions of a module already in the child (assigned_sessions)
AssignedSessions(child, code) ==
    SumSeq([n \in 1..Len(AllCells) |->
        Cardinality({j \in 1..Len(child.slots[AllCells[n][1]][AllCells[n][2]]) :
            child.slots[AllCells[n][1]][AllCells[n][2]][j].module = code})])

\* The body of "for entry in entries": copy the entry when the module still
\* needs sessions and the module, the lecturer and the room are free in the cell.
CrossoverCopy(d, child, it) ==
    LET code == it.entry.module
        lj == LecturerIdx(d, it.entry.lecturer)
    IN IF /\ AssignedSessions(child, code) < ModuleRequirement(d, code)
          /\ ~ CellHasModule(child, it.day, it.slot, code)
          /\ lj # 0
          /\ ~ Truthy(child.lecturer_slots[d.lecturers[lj].id][it.day][it.slot])
          /\ ~ Truthy(child.room_slots[it.entry.room][it.day][it.slot])
       THEN [slots |-> [child.slots EXCEPT ![it.day][it.slot] = Append(@, it.entry)],
             lecturer_slots |->
                [child.lecturer_slots EXCEPT ![d.lecturers[lj].id][it.day][it.slot] = code],
             room_slots |->
                [child.room_slots EXCEPT ![it.entry.room][it.day][it.slot] = code]]
       ELSE child

RECURSIVE CrossoverFold(_, _, _)
CrossoverFold(d, child, items) ==
    IF items = <<>> THEN child
    ELSE CHOOSE r \in {CrossoverFold(d, c, Tail(items)) :
                            c \in {CrossoverCopy(d, child, Head(items))}} : TRUE

\* crossover(parent1, parent2, data) for one outcome of the per-day coin
\* flips: first[day] is TRUE when parent1 is the day's source.
crossover(parent1, parent2, d, first) ==
    CHOOSE child \in
        {CrossoverFold(d, EmptyTimetable(d), items) :
            items \in {CrossoverItems([day \in DAYS |->
                            IF first[day] THEN parent1 ELSE parent2])}} : TRUE

(* ------------------------------- mutation ------------------------------ *)
MUTATE_LECTURER_DAILY_CAP == 4

\* Faulty variant: the index slots are reset but only the first entry of the
\* cell is removed from the slot list.
ClearCell_PopFirst(t, d, day, slot) ==
    [slots |-> [t.slots EXCEPT ![day][slot] = IF @ = <<>> THEN <<>> ELSE Tail(@)],
     lecturer_slots |->
        [id \in DOMAIN t.lecturer_slots |->
            IF id \in LecturerIds(d)
            THEN [t.lecturer_slots[id] EXCEPT ![day][slot] = None]
            ELSE t.lecturer_slots[id]],
     room_slots |->
        [r \in DOMAIN t.room_slots |->
            IF r \in RoomNames(d)
            THEN [t.room_slots[r] EXCEPT ![day][slot] = None]
            ELSE t.room_slots[r]]]

\* Faulty variant: the room index slots are not reset.
ClearCell_KeepRoomIndex(t, d, day, slot) ==
    [slots |-> [t.slots EXCEPT ![day][slot] = <<>>],
     lecturer_slots |->
        [id \in DOMAIN t.lecturer_slots |->
            IF id \in LecturerIds(d)
            THEN [t.lecturer_slots[id] EXCEPT ![day][slot] = None]
            ELSE t.lecturer_slots[id]],
     room_slots |-> t.room_slots]

\* Faulty variant: the slot lists of the whole day are cleared.
ClearCell_WholeDay(t, d, day, slot) ==
    [slots |-> [t.slots EXCEPT ![day] = [s \in TIME_SLOTS |-> <<>>]],
     lecturer_slots |->
        [id \in DOMAIN t.lecturer_slots |->
            [t.lecturer_slots[id] EXCEPT ![day][slot] = None]],
     room_slots |->
        [r \in DOMAIN t.room_slots |->
            [t.room_slots[r] EXCEPT ![day][slot] = None]]]

\* The clearing of the chosen cell and of every index slot of the cell.
ClearCell(t, d, day, slot) ==
    [slots |-> [t.slots EXCEPT ![day][slot] = <<>>],
     lecturer_slots |->
        [id \in DOMAIN t.lecturer_slots |->
            IF id \in LecturerIds(d)
            THEN [t.lecturer_slots[id] EXCEPT ![day][slot] = None]
            ELSE t.lecturer_slots[id]],
     room_slots |->
        [r \in DOMAIN t.room_slots |->
            IF r \in RoomNames(d)
            THEN [t.room_slots[r] EXCEPT ![day][slot] = None]
            ELSE t.room_slots[r]]]

\* available_modules: the coded modules with fewer cells than hours // 2
MutateAvailableModules(d, t) ==
    {j \in 1..Len(d.modules) :
        /\ d.modules[j].code # ""
        /\ Cardinality(ModuleCells(t, d.modules[j].code)) < RequiredSessions(d.modules[j])}

\* group_clash: a target group of the module is served by an entry of the cell
MutateGroupClash(d, t, m, day, slot) ==
    \E g \in Range(m.target_groups) :
        \E j \in 1..Len(t.slots[day][slot]) :
            LET oi == ModuleIdx(d, t.slots[day][slot][j].module)
            IN oi # 0 /\ g \in Range(d.modules[oi].target_groups)

\* available_lecturers of mutate: indices into data['lecturers']
MutateAvailableLecturers(d, t, m, day, slot) ==
    {j \in 1..Len(d.lecturers) :
        /\ m.code \in d.lecturers[j].modules
        /\ ~ Truthy(t.lecturer_slots[d.lecturers[j].id][day][slot])
        /\ Cardinality({s \in TIME_SLOTS :
                Truthy(t.lecturer_slots[d.lecturers[j].id][day][s])})
             < MUTATE_LECTURER_DAILY_CAP}

\* available_rooms of mutate: indices into data['rooms']
MutateAvailableRooms(d, t, m, day, slot) ==
    LET module_programs == {m.target_groups[j][1] : j \in 1..Len(m.target_groups)}
    IN {j \in 1..Len(d.rooms) :
            /\ ~ Truthy(t.room_slots[d.rooms[j].name][day][slot])
            /\ IF d.rooms[j].allowed_programs # {}
               THEN /\ module_programs # {}
                    /\ module_programs \subseteq d.rooms[j].allowed_programs
               ELSE module_programs = {}
            /\ TotalStudents(d, m) + CellStudents(d, t, day, slot) <= d.rooms[j].capacity}

\* Faulty variant: the entry is appended twice.
MutateModule_AppendsTwice(d, c, m, day, slot) ==
    IF \/ Cardinality({s \in TIME_SLOTS : CellHasModule(c, day, s, m.code)}) >= 1
       \/ CellHasModule(c, day, slot, m.code)
       \/ MutateGroupClash(d, c, m, day, slot)
       \/ MutateAvailableLecturers(d, c, m, day, slot) = {}
       \/ MutateAvailableRooms(d, c, m, day, slot) = {}
    THEN {c}
    ELSE {PlaceEntry(PlaceEntry(c, day, slot, m.code, d.lecturers[lj], d.rooms[rj]),
                     day, slot, m.code, d.lecturers[lj], d.rooms[rj]) :
            lj \in MutateAvailableLecturers(d, c, m, day, slot),
            rj \in MutateAvailableRooms(d, c, m, day, slot)}

\* Faulty variant: no check of the sessions the module has on the day.
MutateModule_AnyDay(d, c, m, day, slot) ==
    IF \/ CellHasModule(c, day, slot, m.code)
       \/ MutateGroupClash(d, c, m, day, slot)
       \/ MutateAvailableLecturers(d, c, m, day, slot) = {}
       \/ MutateAvailableRooms(d, c, m, day, slot) = {}
    THEN {c}
    ELSE {PlaceEntry(c, day, slot, m.code, d.lecturers[lj], d.rooms[rj]) :
            lj \in MutateAvailableLecturers(d, c, m, day, slot),
            rj \in MutateAvailableRooms(d, c, m, day, slot)}

\* What mutate leaves once the cell is cleared and the module is chosen.
MutateModule(d, c, m, day, slot) ==
    IF \/ Cardinality({s \in TIME_SLOTS : CellHasModule(c, day, s, m.code)}) >= 1
       \/ CellHasModule(c, day, slot, m.code)
       \/ MutateGroupClash(d, c, m, day, slot)
       \/ MutateAvailableLecturers(d, c, m, day, slot) = {}
       \/ MutateAvailableRooms(d, c, m, day, slot) = {}
    THEN {c}
    ELSE {PlaceEntry(c, day, slot, m.code, d.lecturers[lj], d.rooms[rj]) :
            lj \in MutateAvailableLecturers(d, c, m, day, slot),
            rj \in MutateAvailableRooms(d, c, m, day, slot)}

\* What mutate leaves once the cell is cleared: the cleared timetable when
\* no module is under-scheduled, else the outcome for a random such module.
MutateCleared(d, c, day, slot) ==
    IF MutateAvailableModules(d, c) = {} THEN {c}
    ELSE UNION {MutateModule(d, c, d.modules[mi], day, slot) :
                    mi \in MutateAvailableModules(d, c)}

\* mutate(timetable, data) for the chosen cell: the timetables it can leave.
mutate(t, d, day, slot) ==
    UNION {MutateCleared(d, c, day, slot) : c \in {ClearCell(t, d, day, slot)}}

(* ----------------------------- reproduction --------------------------- *)
\* The child built as a shallow copy of the days' source parents: its
\* containers of a day are those of the individual the day was taken from.
CrossoverSlotOwners_Aliased(w1, w2, first) ==
    [day \in DAYS |-> IF first[day] THEN w1 ELSE w2]

\* Whose containers the child's slot lists are: crossover builds the child's
\* dicts and its lists itself, so for every day they are the child's own
\* (0), never those of the individual at an index of the population.
CrossoverSlotOwners(w1, w2, first) == [day \in DAYS |-> 0]

\* child['slots'][day][slot].append(entry): the entry appended is the
\* parent's dict itself, so every place of the child holds an object of a
\* parent.
CrossoverSharedEntries(child) == EntryPlaces(child)

\* The children one iteration of the reproduction loop can get from
\* crossover (two tournament winners and one coin flip per day), each with
\* what it shares with its parents.
OffspringObjects(pop, scores, d) ==
    UNION {{[t |-> c, owners |-> CrossoverSlotOwners(w1, w2, first),
             entries |-> CrossoverSharedEntries(c), parents |-> pop] :
                c \in {crossover(pop[w1], pop[w2], d, first)}} :
            w1 \in TournamentWinners(pop, scores),
            w2 \in TournamentWinners(pop, scores),
            first \in [DAYS -> BOOLEAN]}

Offspring(pop, scores, d) == {o.t : o \in OffspringObjects(pop, scores, d)}

\* The writes of mutate to the slot list of the cell (the assignment of a
\* new list, the append) land in the container that owns the day's lists:
\* the population is touched only if that container is an individual's.
MutateWrites(pop, owners, day, slot, m) ==
    IF owners[day] = 0 THEN pop
    ELSE [pop EXCEPT ![owners[day]] =
            [slots |-> [@.slots EXCEPT ![day][slot] = m.slots[day][slot]],
             lecturer_slots |->
                [l \in DOMAIN @.lecturer_slots |->
                    [@.lecturer_slots[l] EXCEPT ![day][slot] = m.lecturer_slots[l][day][slot]]],
             room_slots |->
                [r \in DOMAIN @.room_slots |->
                    [@.room_slots[r] EXCEPT ![day][slot] = m.room_slots[r][day][slot]]]]]

MutateObjects(pop, c, d, day, slot) ==
    {[t |-> m, owners |-> c.owners,
      entries |-> {p \in c.entries : ~ (p[1] = day /\ p[2] = slot)},
      parents |-> MutateWrites(pop, c.owners, day, slot, m)] :
        m \in mutate(c.t, d, day, slot)}

\* The children of one iteration: as crossover returns them (plain), and
\* after mutate has changed them in place at a random cell (mutated).
BreedOutcomes(pop, scores, d) ==
    CHOOSE r \in {[plain |-> off,
                   mutated |-> UNION {MutateObjects(pop, c, d, day, slot) :
                                    c \in off, day \in DAYS, slot \in TIME_SLOTS}] :
                  off \in {OffspringObjects(pop, scores, d)}} : TRUE

NoOutcomes == [plain |-> {}, mutated |-> {}]

(* ------------------------------- state --------------------------------- *)
VARIABLES
    data,                   \* the input of generate_timetable
    pc,                     \* position of the driver
    i,                      \* candidate index of initialize_population
    timetable,              \* the candidate under construction
    assigned_modules,       \* codes whose sessions are all placed
    module_daily_sessions,  \* code -> day -> sessions placed
    k,                      \* position in the module visiting order
    scheduling_attempts,    \* attempts made for the module at k
    population,             \* the population list
    init_error,             \* the words of the message initialize_population
                            \* raised, empty while it has raised none
    generation,             \* the loop variable of the generational loop
    best_fitness,
    best_timetable,
    best_index,             \* the index in population of the individual that
                            \* best_timetable is (0 while it is None)
    generations_without_improvement,
    fitness_scores_batch,   \* the scores of the current generation
    raised,                 \* the indices of the individuals for which
                            \* calculate_fitness raised in this generation
    new_population,         \* the offspring built so far
    outcomes,               \* the children one reproduction iteration can yield
                            \* from the current population and scores (these
                            \* do not change while the generation is bred)
    evaluated,              \* history: every score computed during the run
    result,                 \* what generate_timetable returned
    candidate,              \* a timetable handed to validate_hard_constraints
    verdict,                \* what validate_hard_constraints returned for it
    stored,                 \* the timetable_data column of the saved row
    loaded,                 \* timetable_data of what get_timetable_by_id returned
    sel_population,         \* the arguments of one call of tournament_selection
    sel_scores,
    sel_size,
    sel_outcome,            \* and what the call did
    parent1,                \* the arguments of one call of crossover
    parent2,
    child,                  \* what crossover returned; the argument of mutate
    chosen_cell,            \* the (day, slot) that mutate chose
    mutated,                \* the timetable after the call of mutate
    generations,            \* the tunable GENERATIONS of the run
    faulty,                 \* whether calculate_fitness can raise in the run
    cancel_generation,      \* st.session_state['cancel_generation']
    entry_objects           \* genetic_algorithm.py: the entry dicts, by identity

initVars == <<i, timetable, assigned_modules, module_daily_sessions, k, scheduling_attempts>>
gaVars == <<generation, best_fitness, best_timetable, best_index,
            generations_without_improvement, fitness_scores_batch, raised,
            new_population, outcomes, evaluated>>
storeVars == <<stored, loaded>>
selVars == <<sel_population, sel_scores, sel_size, sel_outcome>>
opVars == <<parent1, parent2, child, chosen_cell, mutated>>
probeVars == <<candidate, verdict, storeVars, selVars, opVars>>
envVars == <<generations, faulty, cancel_generation, entry_objects>>
vars == <<data, pc, initVars, population, init_error, gaVars, result, probeVars, envVars>>

\* generate_timetable has not returned yet
Running == [running |-> TRUE]

\* module_daily_sessions = defaultdict(lambda: defaultdict(int))
NoSessions(d) == [c \in ModuleCodes(d) |-> [day \in DAYS |-> 0]]

\* The locals of the engine before initialize_population has done anything.
InitRest(d) ==
    /\ data = d
    /\ i = 0
    /\ timetable = EmptyTimetable(d)
    /\ assigned_modules = {}
    /\ module_daily_sessions = NoSessions(d)
    /\ k = 1
    /\ scheduling_attempts = 0
    /\ population = <<>>
    /\ init_error = <<>>
    /\ generation = 0
    /\ best_fitness = NegInf
    /\ best_timetable = NoTimetable
    /\ best_index = 0
    /\ generations_without_improvement = 0
    /\ fitness_scores_batch = <<>>
    /\ raised = {}
    /\ new_population = <<>>
    /\ outcomes = NoOutcomes
    /\ evaluated = {}
    /\ result = Running

\* Nothing has been saved or loaded.
StoreIdle ==
    /\ stored = NoTimetable
    /\ loaded = NoTimetable

\* crossover and mutate have not been called on their own.
OperatorsIdle ==
    /\ parent1 = NoTimetable
    /\ parent2 = NoTimetable
    /\ child = NoTimetable
    /\ chosen_cell = <<0, 0>>
    /\ mutated = NoTimetable

\* tournament_selection has not been called on its own.
NotSelected == [branch |-> "none", sample |-> <<>>, winner |-> 0]

SelectionIdle ==
    /\ sel_population = <<>>
    /\ sel_scores = <<>>
    /\ sel_size = tournament_size
    /\ sel_outcome = NotSelected

\* A run of GENERATIONS generations in which calculate_fitness never raises,
\* the cancellation flag as the page resets it before the call.
PlainRun ==
    /\ generations = GENERATIONS
    /\ faulty = FALSE
    /\ cancel_generation = FALSE
    /\ entry_objects = <<>>

\* The state before generate_timetable(d) runs gens generations, with or
\* without faults of calculate_fitness.
RunInit(d, gens, faults) ==
    /\ InitRest(d)
    /\ generations = gens
    /\ faulty = faults
    /\ cancel_generation = FALSE
    /\ entry_objects = <<>>
    /\ StoreIdle
    /\ OperatorsIdle
    /\ SelectionIdle
    /\ pc = "init"
    /\ candidate = NoTimetable
    /\ verdict = "none"

InitFor(d) ==
    /\ InitRest(d)
    /\ PlainRun
    /\ StoreIdle
    /\ OperatorsIdle
    /\ SelectionIdle
    /\ pc = "init"
    /\ candidate = NoTimetable
    /\ verdict = "none"

Init == \E d \in Inputs : InitFor(d)

\* The visiting order of every input, computed once.
WorkLists == [d \in Inputs |-> WorkList(d)]

\* The module the loops of initialize_population are at.
CurrentModule == data.modules[WorkLists[data][k]]

\* One successful iteration of the while loop: a random cell, lecturer and
\* room among the available ones, the append and the index updates, and the
\* break once the module has all its sessions.
Place ==
    /\ pc = "init"
    /\ k <= Len(WorkLists[data])
    /\ \E m \in {CurrentModule} :
        /\ m.code \notin assigned_modules
        /\ scheduling_attempts < max_attempts
        /\ \E c \in AvailableSlots(data, timetable, module_daily_sessions, m) :
           \E lj \in AvailableLecturers(data, timetable, m, c[1], c[2]) :
           \E rj \in AvailableRooms(data, timetable, m, c[1], c[2]) :
             /\ timetable' = PlaceEntry(timetable, c[1], c[2], m.code,
                                        data.lecturers[lj], data.rooms[rj])
             /\ module_daily_sessions' =
                    [module_daily_sessions EXCEPT ![m.code][c[1]] = @ + 1]
             \* total_sessions >= required_sessions: the module is done
             /\ IF SumSeq([n \in 1..NumDays |-> module_daily_sessions'[m.code][n]])
                    >= RequiredSessions(m)
                THEN /\ assigned_modules' = assigned_modules \cup {m.code}
                     /\ k' = k + 1
                     /\ scheduling_attempts' = 0
                ELSE /\ assigned_modules' = assigned_modules
                     /\ k' = k
                     /\ scheduling_attempts' = scheduling_attempts + 1
    /\ UNCHANGED <<data, pc, i, population, init_error, gaVars, result, probeVars, envVars>>

\* No cell is available: nothing changes between attempts, so every
\* remaining attempt of the while loop fails and the module is left as it is.
GiveUp ==
    /\ pc = "init"
    /\ k <= Len(WorkLists[data])
    /\ \E m \in {CurrentModule} :
        /\ m.code \notin assigned_modules
        /\ scheduling_attempts < max_attempts
        /\ AvailableSlots(data, timetable, module_daily_sessions, m) = {}
    /\ k' = k + 1
    /\ scheduling_attempts' = 0
    /\ UNCHANGED <<data, pc, i, timetable, assigned_modules, module_daily_sessions,
                   population, init_error, gaVars, result, probeVars, envVars>>

\* if module['code'] in assigned_modules: continue
SkipAssigned ==
    /\ pc = "init"
    /\ k <= Len(WorkLists[data])
    /\ CurrentModule.code \in assigned_modules
    /\ k' = k + 1
    /\ scheduling_attempts' = 0
    /\ UNCHANGED <<data, pc, i, timetable, assigned_modules, module_daily_sessions,
                   population, init_error, gaVars, result, probeVars, envVars>>

\* Faulty variant: the candidate is appended whatever the validator says.
GateCandidate_AlwaysAppend(pop, t, d) == Append(pop, t)

\* if validate_hard_constraints(timetable, data): population.append(timetable)
GateCandidate(pop, t, d) ==
    IF validate_hard_constraints(t, d) THEN Append(pop, t) ELSE pop

\* The gate at the end of one candidate: append it if it validates, drop it
\* otherwise; then the next candidate starts from an empty timetable.
FinishCandidate ==
    /\ pc = "init"
    /\ k > Len(WorkLists[data])
    /\ population' = GateCandidate(population, timetable, data)
    /\ i' = i + 1
    /\ pc' = IF i + 1 >= POPULATION_SIZE THEN "init_return" ELSE "init"
    /\ timetable' = EmptyTimetable(data)
    /\ assigned_modules' = {}
    /\ module_daily_sessions' = NoSessions(data)
    /\ k' = 1
    /\ scheduling_attempts' = 0
    /\ UNCHANGED <<data, init_error, gaVars, result, probeVars, envVars>>

\* ValueError("Failed to initialize any valid timetables"), word by word
InitErrorMessage == <<"Failed", "to", "initialize", "any", "valid", "timetables">>

\* The end of initialize_population: raise on an empty population (the
\* driver catches it and returns None), return the population otherwise.
InitReturn ==
    /\ pc = "init_return"
    /\ IF population = <<>>
       THEN /\ init_error' = InitErrorMessage
            /\ result' = NoTimetable
            /\ pc' = "done"
       ELSE /\ init_error' = init_error
            /\ result' = result
            /\ pc' = "evaluate"
    /\ UNCHANGED <<data, initVars, population, gaVars, probeVars, envVars>>

(* --------------------------- evolution driver -------------------------- *)
STAGNATION_LIMIT == 20

\* Faulty variant: an individual whose evaluation raised is scored 0.
FailedScore_Zero == Score(0)

\* except Exception: fitness_scores_batch.append(float('-inf'))
FailedScore == NegInf

\* Faulty variant: a generation that equals the best fitness resets the count.
Stagnation_TiesReset(max_fitness, best, count) ==
    IF ScoreGe(max_fitness, best) THEN 0 ELSE count + 1

\* generations_without_improvement after "if max_fitness > best_fitness"
Stagnation(max_fitness, best, count) ==
    IF ScoreGt(max_fitness, best) THEN 0 ELSE count + 1

\* The scores of one generation: calculate_fitness for every individual,
\* FailedScore for those of failing, for which it raised.
ScoreBatch(pop, d, failing) ==
    [j \in 1..Len(pop) |->
        IF j \in failing THEN FailedScore ELSE Score(calculate_fitness(pop[j], d))]

\* The head of one generation: score every individual, track the best,
\* count stagnation and stop early when it reaches the limit.
Evaluate ==
    /\ pc = "evaluate"
    /\ \E failing \in (IF faulty THEN SUBSET (1..Len(population)) ELSE {{}}) :
        /\ raised' = failing
        /\ fitness_scores_batch' = ScoreBatch(population, data, failing)
    /\ LET batch == fitness_scores_batch'
           max_fitness == MaxScore(batch)
           improved == ScoreGt(max_fitness, best_fitness)
           stagnation == Stagnation(max_fitness, best_fitness, generations_without_improvement)
       IN /\ evaluated' = evaluated \cup Range(batch)
          /\ best_fitness' = IF improved THEN max_fitness ELSE best_fitness
          /\ best_index' = IF improved THEN IndexOf(batch, max_fitness) ELSE best_index
          /\ best_timetable' = IF improved
                               THEN population[IndexOf(batch, max_fitness)]
                               ELSE best_timetable
          /\ generations_without_improvement' = stagnation
          /\ pc' = IF stagnation >= STAGNATION_LIMIT THEN "finish" ELSE "breed"
          /\ new_population' = IF stagnation >= STAGNATION_LIMIT
                               THEN new_population ELSE <<>>
          /\ outcomes' = IF stagnation >= STAGNATION_LIMIT
                         THEN outcomes ELSE BreedOutcomes(population, batch, data)
    /\ UNCHANGED <<data, initVars, population, init_error, generation, result, probeVars, envVars>>

\* After the append: the while loop goes on, or the for loop advances.
AfterAppend(np) ==
    /\ new_population' = np
    /\ IF Len(np) < POPULATION_SIZE
       THEN /\ pc' = "breed"
            /\ generation' = generation
       ELSE /\ generation' = generation + 1
            /\ pc' = IF generation + 1 < generations THEN "evaluate" ELSE "finish"

\* The population and the best-so-far timetable after one iteration whose
\* writes left the individuals as in parents: best_timetable is one of them.
AfterWrites(parents) ==
    /\ population' = parents
    /\ best_timetable' = IF best_index = 0 THEN best_timetable ELSE parents[best_index]

\* One iteration of the reproduction loop, random.random() >= MUTATION_RATE:
\* the child of crossover is appended as it is.
BreedPlain ==
    /\ pc = "breed"
    /\ \E o \in outcomes.plain :
        /\ AfterAppend(Append(new_population, o.t))
        /\ AfterWrites(o.parents)
    /\ UNCHANGED <<data, initVars, init_error, best_fitness, best_index,
                   generations_without_improvement, fitness_scores_batch, raised,
                   outcomes, evaluated, result, probeVars, envVars>>

\* One iteration of the reproduction loop, random.random() < MUTATION_RATE:
\* mutate changes the child in place at a random cell before the append.
BreedMutated ==
    /\ pc = "breed"
    /\ \E o \in outcomes.mutated :
        /\ AfterAppend(Append(new_population, o.t))
        /\ AfterWrites(o.parents)
    /\ UNCHANGED <<data, initVars, init_error, best_fitness, best_index,
                   generations_without_improvement, fitness_scores_batch, raised,
                   outcomes, evaluated, result, probeVars, envVars>>

\* After the loop: population = new_population, and the best-ever timetable
\* (None when there is none) is returned.
Finish ==
    /\ pc = "finish"
    /\ population' = new_population
    /\ result' = IF best_timetable # NoTimetable THEN best_timetable ELSE NoTimetable
    /\ pc' = "done"
    /\ UNCHANGED <<data, initVars, init_error, gaVars, probeVars, envVars>>

Next ==
    \/ Place
    \/ GiveUp
    \/ SkipAssigned
    \/ FinishCandidate
    \/ InitReturn
    \/ Evaluate
    \/ BreedPlain
    \/ BreedMutated
    \/ Finish

Spec == Init /\ [][Next]_vars

(* ------------------- the validator as a pure function ------------------ *)
\* One-session modules: P1 serves both groups, P2 the second of them.
DataP ==
    [modules |-> << Mod("P1", 2, <<GCS, GSWE>>), Mod("P2", 2, <<GSWE>>) >>,
     lecturers |-> << Lec("L1", "Ann", {"P1"}, 4, 10), Lec("L2", "Bob", {"P2"}, 4, 10) >>,
     rooms |-> << Room("R1", 50, {}), Room("R2", 50, {}) >>,
     students_per_group |-> (GCS :> 20 @@ GSWE :> 10)]

ProbeInputs == {DataP, DataC}

\* The largest number of entries of a candidate handed to the validator.
MaxProbeEntries == 2

\* Every timetable of at most n entries: any known module, lecturer and room
\* in any cell, with no feasibility check at all.
RECURSIVE ProbeCandidates(_, _)
ProbeCandidates(d, n) ==
    IF n = 0 THEN {EmptyTimetable(d)}
    ELSE LET prev == ProbeCandidates(d, n - 1)
         IN prev \cup
            {PlaceEntry(t, c[1], c[2], d.modules[m].code, d.lecturers[l], d.rooms[r]) :
                t \in prev, c \in DAYS \X TIME_SLOTS, m \in 1..Len(d.modules),
                l \in 1..Len(d.lecturers), r \in 1..Len(d.rooms)}

InitValidate ==
    \E d \in ProbeInputs :
        /\ InitRest(d)
        /\ PlainRun
        /\ StoreIdle
        /\ OperatorsIdle
        /\ SelectionIdle
        /\ pc = "validate"
        /\ candidate \in ProbeCandidates(d, MaxProbeEntries)
        /\ verdict = "none"

\* verdict = validate_hard_constraints(candidate, data)
Validate ==
    /\ pc = "validate"
    /\ verdict' = IF validate_hard_constraints(candidate, data) THEN "True" ELSE "False"
    /\ pc' = "validated"
    /\ UNCHANGED <<data, initVars, population, init_error, gaVars, result, candidate,
                   storeVars, selVars, opVars, envVars>>

NextValidate == Validate

SpecValidate == InitValidate /\ [][NextValidate]_vars

(* --------------------- the run and the Cancel button ------------------- *)
\* The caller sets the flag while generate_timetable is running:
\* st.session_state['cancel_generation'] = True. Nothing of the engine
\* changes; generate_timetable has no statement that reads the flag.
Cancel ==
    /\ pc \in {"init", "evaluate", "breed"}
    /\ ~ cancel_generation
    /\ cancel_generation' = TRUE
    /\ UNCHANGED <<data, pc, initVars, population, init_error, gaVars, result, probeVars,
                   generations, faulty, entry_objects>>

NextCancel ==
    \/ Next
    \/ Cancel

\* A feasible and an infeasible input, which take every step of the engine.
SmallInputs == {DataA, DataC}

InitSmall == \E d \in SmallInputs : RunInit(d, GENERATIONS, FALSE)

SpecCancel == InitSmall /\ [][NextCancel]_vars

(* ----------------------- attempts taken one by one -------------------- *)
\* Faulty variant: the loop over the modules stays at the module.
NextModule_Same(at) == at

\* for module in modules: the loop goes on to the next module
NextModule(at) == at + 1

\* One failing iteration of the while loop: scheduling_attempts += 1, no
\* cell is available, continue.
Retry ==
    /\ pc = "init"
    /\ k <= Len(WorkLists[data])
    /\ \E m \in {CurrentModule} :
        /\ m.code \notin assigned_modules
        /\ scheduling_attempts < max_attempts
        /\ AvailableSlots(data, timetable, module_daily_sessions, m) = {}
    /\ scheduling_attempts' = scheduling_attempts + 1
    /\ UNCHANGED <<data, pc, i, k, timetable, assigned_modules, module_daily_sessions,
                   population, init_error, gaVars, result, probeVars, envVars>>

\* while scheduling_attempts < max_attempts is false: the module is left
\* with the sessions it has.
Exhausted ==
    /\ pc = "init"
    /\ k <= Len(WorkLists[data])
    /\ CurrentModule.code \notin assigned_modules
    /\ ~ (scheduling_attempts < max_attempts)
    /\ k' = NextModule(k)
    /\ scheduling_attempts' = 0
    /\ UNCHANGED <<data, pc, i, timetable, assigned_modules, module_daily_sessions,
                   population, init_error, gaVars, result, probeVars, envVars>>

NextAttempts ==
    \/ Next
    \/ Retry
    \/ Exhausted

\* The program is sequential and always takes its next step.
SpecLive == InitSmall /\ [][NextAttempts]_vars /\ WF_vars(NextAttempts)

(* --------------------------- runs with faults -------------------------- *)
\* Runs in which calculate_fitness raises for any individuals of any
\* generation.
InitFaults == \E d \in SmallInputs : RunInit(d, GENERATIONS, TRUE)

SpecFaults == InitFaults /\ [][Next]_vars

(* ------------------------------ long runs ------------------------------ *)
\* Runs long enough for the early stop: GENERATIONS above STAGNATION_LIMIT.
InitLong == \E d \in SmallInputs : RunInit(d, LONG_GENERATIONS, FALSE)

SpecLong == InitLong /\ [][Next]_vars


(* --------------------- saving and loading a timetable ------------------ *)
\* A key of a Python dict with its type: repr is str(key).
PyInt(digits) == [type |-> "int", repr |-> digits]
PyStr(text) == [type |-> "str", repr |-> text]

\* json.dumps writes every key of a dict as a JSON string, an int key as its
\* decimal digits; json.loads makes a str of every key of an object.
JsonKey(key) == PyStr(key.repr)

\* The lecturers as the data entry page creates them: "id": i, an int.
DataJ ==
    [modules |-> << Mod("M1", 4, <<GCS>>) >>,
     lecturers |-> << Lec(PyInt("0"), "Ann", {"M1"}, 4, 10),
                      Lec(PyInt("1"), "Bob", {"M1"}, 4, 10) >>,
     rooms |-> << Room("R1", 50, {}) >>,
     students_per_group |-> (GCS :> 30)]

\* The same data with str ids, which the engine accepts as well.
DataK ==
    [DataJ EXCEPT !.lecturers = << Lec(PyStr("L1"), "Ann", {"M1"}, 4, 10),
                                   Lec(PyStr("L2"), "Bob", {"M1"}, 4, 10) >>]

StoreInputs == {DataJ, DataK}

\* safe_json_dumps(timetable_data), then json.loads of the column: dicts come
\* back as dicts with str keys, lists as lists, str and None as they were.
\* The days, the slot labels and the room names are str already.
JsonRoundTrip(t) ==
    [slots |-> t.slots,
     lecturer_slots |->
        [key \in {JsonKey(id) : id \in DOMAIN t.lecturer_slots} |->
            t.lecturer_slots[CHOOSE id \in DOMAIN t.lecturer_slots : JsonKey(id) = key]],
     room_slots |-> t.room_slots]

\* The labels of TIME_SLOTS, and the old labels convert_time_slot_format knows.
SLOT_LABELS == <<"08:00-10:00", "10:00-12:00", "12:00-14:00", "14:00-16:00">>

\* (the first old label has an en dash in the source, written -- here)
time_slot_mapping(label) ==
    CASE label = "0800 -- 1000" -> "08:00-10:00"
      [] label = "1000 - 1200" -> "10:00-12:00"
      [] label = "1200 -1400" -> "12:00-14:00"
      [] label = "1400 -1600" -> "14:00-16:00"
      [] OTHER -> label

\* converted_slots[day][time_slot_mapping.get(old_slot, old_slot)] = entries
convert_time_slot_format(t) ==
    [t EXCEPT !.slots =
        [day \in DOMAIN t.slots |->
            [slot \in DOMAIN t.slots[day] |->
                t.slots[day][CHOOSE old \in DOMAIN t.slots[day] :
                                time_slot_mapping(SLOT_LABELS[old]) = SLOT_LABELS[slot]]]]]

\* validate_timetable_data: some cell of the timetable has an entry
HasEntries(t) == \E day \in DAYS, slot \in TIME_SLOTS : t.slots[day][slot] # <<>>

InitStore ==
    \E d \in StoreInputs :
        /\ InitRest(d)
        /\ PlainRun
        /\ StoreIdle
        /\ OperatorsIdle
        /\ SelectionIdle
        /\ pc = "save"
        /\ candidate \in ProbeCandidates(d, MaxProbeEntries)
        /\ verdict = "none"

\* save_timetable: a timetable without entries is refused, any other is
\* written to the timetable_data column as JSON text.
SaveTimetable ==
    /\ pc = "save"
    /\ IF HasEntries(candidate)
       THEN /\ stored' = JsonRoundTrip(candidate)
            /\ pc' = "saved"
       ELSE /\ stored' = stored
            /\ pc' = "refused"
    /\ UNCHANGED <<data, initVars, population, init_error, gaVars, result, candidate,
                   verdict, loaded, selVars, opVars, envVars>>

\* get_timetable_by_id: the column parsed and passed to convert_time_slot_format
GetTimetableById ==
    /\ pc = "saved"
    /\ loaded' = convert_time_slot_format(stored)
    /\ pc' = "loaded"
    /\ UNCHANGED <<data, initVars, population, init_error, gaVars, result, candidate,
                   verdict, stored, selVars, opVars, envVars>>

NextStore ==
    \/ SaveTimetable
    \/ GetTimetableById

SpecStore == InitStore /\ [][NextStore]_vars

(* ---------------- tournament_selection as a pure function -------------- *)
\* Timetables to select among: one session of Scenario A placed on some day,
\* and None.
SelIndividuals ==
    {NoTimetable} \cup
    {PlaceEntry(EmptyTimetable(DataA), day, 1, "M1", DataA.lecturers[1], DataA.rooms[1]) :
        day \in DAYS}

SelScores == {NegInf, Score(1), Score(2)}

\* the lists of at most n elements of S
ListsUpTo(S, n) == UNION {[1..m -> S] : m \in 0..n}

InitSelect ==
    /\ InitRest(DataA)
    /\ PlainRun
    /\ StoreIdle
    /\ OperatorsIdle
    /\ pc = "select"
    /\ candidate = NoTimetable
    /\ verdict = "none"
    /\ sel_population \in ListsUpTo(SelIndividuals, MaxSelPopulation)
    /\ sel_scores \in ListsUpTo(SelScores, MaxSelPopulation)
    /\ sel_size \in 1..MaxSelSize
    /\ sel_outcome = NotSelected

\* tournament_selection(sel_population, sel_scores, sel_size)
Select ==
    /\ pc = "select"
    /\ sel_outcome' \in TournamentOutcomes(sel_population, sel_scores, sel_size)
    /\ pc' = "selected"
    /\ UNCHANGED <<data, initVars, population, init_error, gaVars, result, candidate,
                   verdict, storeVars, sel_population, sel_scores, sel_size, opVars, envVars>>

NextSelect == Select

SpecSelect == InitSelect /\ [][NextSelect]_vars

(* ---------------------- crossover as a pure function ------------------- *)
\* Two one-session modules that share a group; Ann teaches both.
DataX ==
    [modules |-> << Mod("P1", 2, <<GCS, GSWE>>), Mod("P2", 2, <<GSWE>>) >>,
     lecturers |-> << Lec("L1", "Ann", {"P1", "P2"}, 4, 10), Lec("L2", "Bob", {"P2"}, 4, 10) >>,
     rooms |-> << Room("R1", 50, {}), Room("R2", 50, {}) >>,
     students_per_group |-> (GCS :> 20 @@ GSWE :> 10)]

\* The sessions a parent can hold, as (module, lecturer, room) indices of
\* DataX: P1 with Ann in R1, P2 with Bob in R2, P2 with Ann in R1.
ParentSessions == {<<1, 1, 1>>, <<2, 2, 2>>, <<2, 1, 1>>}

\* The timetables of at most n such sessions, put anywhere: over-scheduled,
\* under-scheduled and conflicting parents are among them.
RECURSIVE Parents(_, _)
Parents(d, n) ==
    IF n = 0 THEN {EmptyTimetable(d)}
    ELSE LET prev == Parents(d, n - 1)
         IN prev \cup
            {PlaceEntry(t, c[1], c[2], d.modules[x[1]].code, d.lecturers[x[2]], d.rooms[x[3]]) :
                t \in prev, c \in DAYS \X TIME_SLOTS, x \in ParentSessions}

InitCross ==
    /\ InitRest(DataX)
    /\ PlainRun
    /\ StoreIdle
    /\ SelectionIdle
    /\ pc = "cross"
    /\ candidate = NoTimetable
    /\ verdict = "none"
    /\ parent1 \in Parents(DataX, MaxParentEntries)
    /\ parent2 \in Parents(DataX, MaxParentEntries)
    /\ child = NoTimetable
    /\ chosen_cell = <<0, 0>>
    /\ mutated = NoTimetable

\* child = crossover(parent1, parent2, data), for any outcome of the coin
\* flips of the days
Cross ==
    /\ pc = "cross"
    /\ \E first \in [DAYS -> BOOLEAN] : child' = crossover(parent1, parent2, data, first)
    /\ pc' = "crossed"
    /\ UNCHANGED <<data, initVars, population, init_error, gaVars, result, candidate,
                   verdict, storeVars, selVars, parent1, parent2, chosen_cell, mutated, envVars>>

NextCross == Cross

SpecCross == InitCross /\ [][NextCross]_vars

(* ------------------------ mutate as a pure function -------------------- *)
\* DataX with a room restricted to the programs of both groups, and an
\* unrestricted room.
DataM ==
    [DataX EXCEPT !.rooms = << Room("R1", 50, {"CS", "SWE"}), Room("R2", 50, {}) >>]

InitMutate ==
    /\ InitRest(DataM)
    /\ PlainRun
    /\ StoreIdle
    /\ SelectionIdle
    /\ pc = "mutate"
    /\ candidate = NoTimetable
    /\ verdict = "none"
    /\ parent1 = NoTimetable
    /\ parent2 = NoTimetable
    /\ child \in Parents(DataM, MaxParentEntries)
    /\ chosen_cell = <<0, 0>>
    /\ mutated = NoTimetable

\* mutate(child, data): the random cell, and what the call leaves of the
\* timetable
Mutate ==
    /\ pc = "mutate"
    /\ \E day \in DAYS, slot \in TIME_SLOTS :
        /\ chosen_cell' = <<day, slot>>
        /\ mutated' \in mutate(child, data, day, slot)
    /\ pc' = "mutated"
    /\ UNCHANGED <<data, initVars, population, init_error, gaVars, result, candidate,
                   verdict, storeVars, selVars, parent1, parent2, child, envVars>>

NextMutate == Mutate

SpecMutate == InitMutate /\ [][NextMutate]_vars

(* ---------------------- sequences of operator calls -------------------- *)
\* DataM with a two-session module.
DataO == [DataM EXCEPT !.modules[1] = Mod("P1", 4, <<GCS, GSWE>>)]

\* The schedules of the sessions of ParentSessions that
\* validate_hard_constraints accepts.
ValidParents(d) ==
    {t \in Parents(d, MaxValidEntries) : validate_hard_constraints(t, d)}

InitOps ==
    /\ InitRest(DataO)
    /\ PlainRun
    /\ StoreIdle
    /\ SelectionIdle
    /\ pc = "ops"
    /\ candidate = NoTimetable
    /\ verdict = "none"
    /\ parent1 \in ValidParents(DataO)
    /\ parent2 \in ValidParents(DataO)
    /\ child = NoTimetable
    /\ chosen_cell = <<0, 0>>
    /\ mutated = NoTimetable

\* parent1 = crossover(parent1, parent2, data) or the same with the parents
\* exchanged: the child is an operand of the calls that follow.
OpCross ==
    /\ pc = "ops" \/ pc = "op_cross" \/ pc = "op_mutate"
    /\ \E first \in [DAYS -> BOOLEAN] :
        \/ parent1' = crossover(parent1, parent2, data, first)
        \/ parent1' = crossover(parent2, parent1, data, first)
    /\ pc' = "op_cross"
    /\ UNCHANGED <<data, initVars, population, init_error, gaVars, result, candidate,
                   verdict, storeVars, selVars, parent2, child, chosen_cell, mutated, envVars>>

\* mutate(parent1, data) or mutate(parent2, data): the schedule is changed
\* in place.
OpMutate ==
    /\ pc = "ops" \/ pc = "op_cross" \/ pc = "op_mutate"
    /\ \E day \in DAYS, slot \in TIME_SLOTS :
        /\ chosen_cell' = <<day, slot>>
        /\ \/ parent1' \in mutate(parent1, data, day, slot) /\ parent2' = parent2
           \/ parent2' \in mutate(parent2, data, day, slot) /\ parent1' = parent1
    /\ pc' = "op_mutate"
    /\ UNCHANGED <<data, initVars, population, init_error, gaVars, result, candidate,
                   verdict, storeVars, selVars, child, mutated, envVars>>

NextOps ==
    \/ OpCross
    \/ OpMutate

SpecOps == InitOps /\ [][NextOps]_vars

(* ------------------ the engine of genetic_algorithm.py ----------------- *)
\* The arguments of generate_timetable: one course of two hours, one
\* faculty member, one room, one generation.
GAData ==
    [courses |-> << [code |-> "C1", hours |-> 2, type |-> "Core", room_type |-> "Regular"] >>,
     faculties |-> << [id |-> "F1", courses |-> {"C1"}, max_daily |-> 3] >>,
     rooms |-> << [name |-> "R1", type |-> "Regular"] >>,
     GENERATIONS |-> 1,
     FACULTY_MIN_HOURS |-> 1,
     FACULTY_MAX_HOURS |-> 2]

GA_DAYS == 1..GA_NumDays
GA_TIME_SLOTS == 1..GA_NumSlots

\* sorted(courses, key = 0 for Core, 1 for Program-Specific, else 2): a
\* stable sort
GASortedCourses(d) ==
    SelectSeq(d.courses, LAMBDA c : c.type = "Core")
        \o SelectSeq(d.courses, LAMBDA c : c.type = "Program-Specific")
        \o SelectSeq(d.courses, LAMBDA c : c.type \notin {"Core", "Program-Specific"})

\* suitable_rooms, but for the room being free
GASuitableRooms(d, course) ==
    {r \in 1..Len(d.rooms) :
        \/ d.rooms[r].type = course.room_type
        \/ course.room_type = "Regular" /\ d.rooms[r].type # "Lab"}

\* The dicts one attempt of initialize_population can append for an hour of
\* the course with the faculty member: the faculty member is free in the
\* cell and under the daily limit, the room is suitable and free.
GAPlacements(d, sched, course, f) ==
    {[room |-> d.rooms[c[1]].name, day |-> c[2], time |-> c[3],
      course |-> course.code, faculty |-> f.id] :
        c \in {c \in GASuitableRooms(d, course) \X GA_DAYS \X GA_TIME_SLOTS :
            /\ ~ \E n \in 1..Len(sched) :
                    sched[n].faculty = f.id /\ sched[n].day = c[2] /\ sched[n].time = c[3]
            /\ Cardinality({n \in 1..Len(sched) :
                    sched[n].faculty = f.id /\ sched[n].day = c[2]}) < f.max_daily
            /\ ~ \E n \in 1..Len(sched) :
                    /\ sched[n].room = d.rooms[c[1]].name
                    /\ sched[n].day = c[2] /\ sched[n].time = c[3]}}

\* while remaining_hours > 0: an hour is placed by one of the 50 random
\* attempts, or none of them finds a cell (they can all fall on a cell that
\* is refused) and the course is left.
RECURSIVE GAHours(_, _, _, _)
GAHours(d, sched, course, remaining) ==
    IF remaining = 0 THEN {sched}
    ELSE UNION {
            LET placed == GAPlacements(d, sched, course, d.faculties[fj])
                accepted == {<<e.day, e.time>> : e \in placed}
            IN (IF accepted # GA_DAYS \X GA_TIME_SLOTS THEN {sched} ELSE {})
               \cup UNION {GAHours(d, Append(sched, e), course, remaining - 1) : e \in placed} :
            fj \in {fj \in 1..Len(d.faculties) : course.code \in d.faculties[fj].courses}}

\* for course in sorted_courses: a course nobody teaches is skipped
RECURSIVE GACourses(_, _, _)
GACourses(d, sched, courses) ==
    IF courses = <<>> THEN {sched}
    ELSE LET course == Head(courses)
         IN IF \A fj \in 1..Len(d.faculties) : course.code \notin d.faculties[fj].courses
            THEN GACourses(d, sched, Tail(courses))
            ELSE UNION {GACourses(d, t, Tail(courses)) :
                            t \in GAHours(d, sched, course, course.hours)}

\* The schedules (lists of entry dicts) one round of initialize_population
\* can build.
GAInitialSchedules(d) == GACourses(d, <<>>, GASortedCourses(d))

\* The identities of the entry dicts of the initial population: the n-th
\* dict of the j-th schedule.
GAObjectIds == (1..GA_POPULATION_SIZE) \X (1..2)

\* (room, day, time) of an entry dict
GAKey(h, e) == <<h[e].room, h[e].day, h[e].time>>

\* fitness(schedule, ...); (FACULTY_MIN_HOURS + FACULTY_MAX_HOURS) / 2 is
\* kept exact by taking the doubled difference.
ga_fitness(s, h, d) ==
    LET hours(fid) == Cardinality({e \in s : h[e].faculty = fid})
        fulfilled(code) == Cardinality({e \in s : h[e].course = code})
        daily(fid, day) == Cardinality({e \in s : h[e].faculty = fid /\ h[e].day = day})
        CourseOf(e) == d.courses[CHOOSE j \in 1..Len(d.courses) : d.courses[j].code = h[e].course]
        RoomOf(e) == d.rooms[CHOOSE j \in 1..Len(d.rooms) : d.rooms[j].name = h[e].room]
    IN SumSeq([j \in 1..Len(d.faculties) |->
            IF /\ d.FACULTY_MIN_HOURS <= hours(d.faculties[j].id)
               /\ hours(d.faculties[j].id) <= d.FACULTY_MAX_HOURS
            THEN 20
            ELSE - Abs(2 * hours(d.faculties[j].id)
                        - (d.FACULTY_MIN_HOURS + d.FACULTY_MAX_HOURS))])
       + SumSeq([j \in 1..Len(d.courses) |->
            IF fulfilled(d.courses[j].code) = d.courses[j].hours
            THEN 15
            ELSE - Abs(fulfilled(d.courses[j].code) - d.courses[j].hours) * 3])
       - SumSeq([j \in 1..Len(d.faculties) |->
            SumSeq([day \in 1..GA_NumDays |->
                IF daily(d.faculties[j].id, day) > d.faculties[j].max_daily
                THEN (daily(d.faculties[j].id, day) - d.faculties[j].max_daily) * 5
                ELSE 0])])
       - 10 * Cardinality({e \in s : CourseOf(e).room_type = "Lab" /\ RoomOf(e).type # "Lab"})
       - 5 * Cardinality({e \in s : CourseOf(e).room_type = "Regular" /\ RoomOf(e).type = "Lab"})

\* sorted(population, key = fitness, reverse = True): stable, so schedules
\* of equal fitness keep their order.
RECURSIVE GASorted(_, _, _)
GASorted(list, h, d) ==
    IF list = <<>> THEN <<>>
    ELSE LET before == GASorted(SubSeq(list, 1, Len(list) - 1), h, d)
             x == list[Len(list)]
             n == Cardinality({j \in 1..Len(before) :
                        ga_fitness(before[j], h, d) >= ga_fitness(x, h, d)})
         IN SubSeq(before, 1, n) \o <<x>> \o SubSeq(before, n + 1, Len(before))

\* p_dict = {(room, day, time): e for e in parent}: one entry for each key
\* of the parent (the last of the list, when two entries have the key).
GADicts(p, h) ==
    {f \in [{GAKey(h, e) : e \in p} -> p] : \A key \in DOMAIN f : GAKey(h, f[key]) = key}

\* crossover(parent1, parent2): the children it can return.  A key of both
\* parents gives the entry of one of them, a key of one parent gives its
\* entry or nothing; the entries are the parents' dicts themselves.
ga_crossover(p1, p2, h) ==
    UNION {
        LET all_slots == DOMAIN p1_dict \cup DOMAIN p2_dict
        IN {{p1_dict[key] : key \in {x \in all_slots : from[x] = 1}}
              \cup {p2_dict[key] : key \in {x \in all_slots : from[x] = 2}} :
                from \in {g \in [all_slots -> 0..2] :
                    \A key \in all_slots :
                        /\ g[key] = 1 => key \in DOMAIN p1_dict
                        /\ g[key] = 2 => key \in DOMAIN p2_dict
                        /\ g[key] = 0 => ~ (key \in DOMAIN p1_dict /\ key \in DOMAIN p2_dict)}} :
        p1_dict \in GADicts(p1, h), p2_dict \in GADicts(p2, h)}

\* mutate(schedule, ...): what the call can leave of the entry dicts.  The
\* swap of two list places changes no dict; the second mutation gives one
\* entry of the schedule the first random cell in which no other entry of
\* the schedule (other by value) has its faculty member or its room, and
\* writes the cell into the dict itself.
ga_mutate(schedule, h) ==
    {h} \cup
    (IF Cardinality(schedule) > 1
     THEN {[h EXCEPT ![m[1]].day = m[2], ![m[1]].time = m[3]] :
            m \in {m \in schedule \X GA_DAYS \X GA_TIME_SLOTS :
                \A e \in {e \in schedule : h[e] # h[m[1]]} :
                    /\ h[e].day # m[2] \/ h[e].time # m[3] \/ h[e].faculty # h[m[1]].faculty
                    /\ h[e].day # m[2] \/ h[e].time # m[3] \/ h[e].room # h[m[1]].room}}
     ELSE {})

\* No dict exists for an identity that no schedule of the initial
\* population uses.
NoEntry == [none |-> TRUE]

\* The entry dicts of an initial population whose first schedule is a and
\* whose other schedules are equal to b, each with dicts of its own (b is
\* a schedule that got one of its two hours).
GAObjects(a, b) ==
    [e \in GAObjectIds |->
        LET sched == IF e[1] = 1 THEN a ELSE b
        IN IF e[2] <= Len(sched) THEN sched[e[2]] ELSE NoEntry]

\* The schedule at a place of the initial population, as the set of its dicts.
GASchedule(j, sched) == {<<j, n>> : n \in 1..Len(sched)}

\* population, new_population: the schedules whose place in the list is
\* known, in order, and the offspring appended after them.
GAPopulation(list, bred, size) == [list |-> list, bred |-> bred, size |-> size]

\* The schedules of a population.
GAMembers(pop) == Range(pop.list) \cup pop.bred

InitGA ==
    /\ data = GAData
    /\ i = 0
    /\ timetable = NoTimetable
    /\ assigned_modules = {}
    /\ module_daily_sessions = <<>>
    /\ k = 1
    /\ scheduling_attempts = 0
    /\ init_error = <<>>
    /\ generation = 0
    /\ best_fitness = NegInf
    /\ best_timetable = NoTimetable
    /\ best_index = 0
    /\ generations_without_improvement = 0
    /\ fitness_scores_batch = <<>>
    /\ raised = {}
    /\ outcomes = NoOutcomes
    /\ evaluated = {}
    /\ result = Running
    /\ generations = GAData.GENERATIONS
    /\ faulty = FALSE
    /\ cancel_generation = FALSE
    /\ StoreIdle
    /\ OperatorsIdle
    /\ SelectionIdle
    /\ candidate = NoTimetable
    /\ verdict = "none"
    /\ pc = "ga_sort"
    /\ \E a \in GAInitialSchedules(GAData),
          b \in {x \in GAInitialSchedules(GAData) : Len(x) = 1} :
        /\ entry_objects = GAObjects(a, b)
        /\ population =
            GAPopulation([j \in 1..GA_POPULATION_SIZE |->
                            GASchedule(j, IF j = 1 THEN a ELSE b)], {}, GA_POPULATION_SIZE)
    /\ new_population = GAPopulation(<<>>, {}, 0)

ELITE_DIVISOR == 5

\* for generation in range(GENERATIONS): the sort, the elites and
\* new_population = elites.copy().
GASort ==
    /\ pc = "ga_sort"
    /\ generation < generations
    /\ population.bred = {}
    /\ LET ranked == GASorted(population.list, entry_objects, data)
           elite_size == GA_POPULATION_SIZE \div ELITE_DIVISOR
       IN /\ population' = GAPopulation(ranked, {}, population.size)
          /\ new_population' = GAPopulation(SubSeq(ranked, 1, elite_size), {}, elite_size)
    /\ pc' = "ga_breed"
    /\ UNCHANGED <<data, initVars, init_error, generation, best_fitness, best_timetable,
                   best_index, generations_without_improvement, fitness_scores_batch, raised,
                   outcomes, evaluated, result, probeVars, envVars>>

\* One iteration of the while loop: two elites sampled, crossover, mutate
\* (which writes into the dicts of the offspring, the parents' dicts), append.
\* With fewer than two elites parents[1] raises IndexError.
GABreed ==
    /\ pc = "ga_breed"
    /\ new_population.size < GA_POPULATION_SIZE
    /\ LET elites == new_population.list
       IN IF Len(elites) < 2
          THEN /\ pc' = "ga_raised"
               /\ UNCHANGED <<new_population, entry_objects>>
          ELSE \E parents \in {x \in (1..Len(elites)) \X (1..Len(elites)) : x[1] # x[2]} :
                /\ \E offspring \in ga_crossover(elites[parents[1]], elites[parents[2]],
                                                  entry_objects) :
                    /\ entry_objects' \in ga_mutate(offspring, entry_objects)
                    /\ new_population' =
                            GAPopulation(elites, new_population.bred \cup {offspring},
                                         new_population.size + 1)
                /\ pc' = "ga_breed"
    /\ UNCHANGED <<data, initVars, population, init_error, generation, best_fitness,
                   best_timetable, best_index, generations_without_improvement,
                   fitness_scores_batch, raised, outcomes, evaluated, result, probeVars,
                   generations, faulty, cancel_generation>>

\* population = new_population, at the end of the generation
GANextGeneration ==
    /\ pc = "ga_breed"
    /\ ~ (new_population.size < GA_POPULATION_SIZE)
    /\ population' = new_population
    /\ generation' = generation + 1
    /\ pc' = "ga_sort"
    /\ UNCHANGED <<data, initVars, init_error, best_fitness, best_timetable, best_index,
                   generations_without_improvement, fitness_scores_batch, raised,
                   new_population, outcomes, evaluated, result, probeVars, envVars>>

\* return max(population, key = fitness): the first schedule of the list
\* with the best fitness, the elites coming first.
GAReturn ==
    /\ pc = "ga_sort"
    /\ ~ (generation < generations)
    /\ LET best == SetMax({ga_fitness(x, entry_objects, data) : x \in GAMembers(population)})
           firsts == {j \in 1..Len(population.list) :
                        ga_fitness(population.list[j], entry_objects, data) = best}
       IN result' \in IF firsts # {}
                      THEN {population.list[SetMin(firsts)]}
                      ELSE {x \in population.bred : ga_fitness(x, entry_objects, data) = best}
    /\ pc' = "ga_done"
    /\ UNCHANGED <<data, initVars, population, init_error, gaVars, probeVars, envVars>>

NextGA ==
    \/ GASort
    \/ GABreed
    \/ GANextGeneration
    \/ GAReturn

SpecGA == InitGA /\ [][NextGA]_vars

(* ------------------------------ properties ----------------------------- *)
\* a timetable, as opposed to Running or NoTimetable
IsSchedule(x) == "slots" \in DOMAIN x

\* the population as initialize_population returned it (it is replaced by the
\* offspring only when the run ends)
InitialPopulation == IF pc = "done" THEN {} ELSE Range(population)

ReturnedSchedules == IF IsSchedule(result) THEN {result} ELSE {}

BestSoFar == IF IsSchedule(best_timetable) THEN {best_timetable} ELSE {}

\* C1: in the Schedule generate_timetable returns, every module with a
\* non-empty code occupies exactly hours/2 cells, no two of them on one day.
C1_ModuleSessions ==
    \A t \in ReturnedSchedules :
        \A j \in 1..Len(data.modules) :
            LET m == data.modules[j]
                cells == {p \in DAYS \X TIME_SLOTS :
                            \E e \in Range(t.slots[p[1]][p[2]]) : e.module = m.code}
            IN m.code # "" =>
                /\ 2 * Cardinality(cells) = m.hours
                /\ \A a, b \in cells : a # b => a[1] # b[1]

\* A Schedule was returned for an input of several coded modules, and one of
\* them sits in two cells of different days.
C1_Witness ==
    /\ IsSchedule(result)
    /\ Cardinality({c \in ModuleCodes(data) : c # ""}) >= 3
    /\ \E p, q \in EntryPlaces(result) :
        /\ EntryAt(result, p).module = EntryAt(result, q).module
        /\ p[1] # q[1]

\* C2: in every Schedule of a population and in the best-so-far Schedule, no
\* cell holds two entries with the same lecturer or two with the same room.
C2_NoDoubleBooking ==
    \A t \in Range(population) \cup Range(new_population) \cup BestSoFar \cup ReturnedSchedules :
        \A day \in DAYS, slot \in TIME_SLOTS :
            LET es == t.slots[day][slot]
            IN \A a, b \in 1..Len(es) :
                a # b => es[a].lecturer # es[b].lecturer /\ es[a].room # es[b].room

\* An offspring in the next population has a cell shared by two entries.
C2_Witness ==
    \E t \in Range(new_population) :
        \E day \in DAYS, slot \in TIME_SLOTS : Len(t.slots[day][slot]) >= 2

RECURSIVE Headcount(_, _)
Headcount(d, groups) ==
    IF groups = <<>> THEN 0
    ELSE (IF Head(groups) \in DOMAIN d.students_per_group
          THEN d.students_per_group[Head(groups)] ELSE 0) + Headcount(d, Tail(groups))

\* C3: for every entry of the returned Schedule, the headcounts of the target
\* groups of its module sum to at most the capacity of its room.
C3_RoomCapacity ==
    \A t \in ReturnedSchedules :
        \A p \in EntryPlaces(t) :
            LET e == EntryAt(t, p)
            IN \A m \in Range(data.modules), r \in Range(data.rooms) :
                (m.code = e.module /\ r.name = e.room) =>
                    Headcount(data, m.target_groups) <= r.capacity

\* The returned Schedule has a module of two target groups in a room it fills
\* to the last seat.
C3_Witness ==
    \E t \in ReturnedSchedules :
        \E p \in EntryPlaces(t) :
            \E m \in Range(data.modules), r \in Range(data.rooms) :
                /\ m.code = EntryAt(t, p).module
                /\ r.name = EntryAt(t, p).room
                /\ Len(m.target_groups) >= 2
                /\ Headcount(data, m.target_groups) = r.capacity

\* C4: no accepted Schedule (initial population, returned Schedule) has an
\* entry whose room restricts its programs and lacks a program of the
\* target groups of the entry's module.
C4_AllowedPrograms ==
    \A t \in InitialPopulation \cup ReturnedSchedules :
        \A p \in EntryPlaces(t) :
            LET e == EntryAt(t, p)
            IN \A m \in Range(data.modules), r \in Range(data.rooms) :
                (m.code = e.module /\ r.name = e.room /\ r.allowed_programs # {}) =>
                    \A g \in Range(m.target_groups) : g[1] \in r.allowed_programs

\* the entries of t taught by the lecturer, on one day and over the week
SessionsOn(t, name, day) ==
    Cardinality({p \in EntryPlaces(t) : p[1] = day /\ EntryAt(t, p).lecturer = name})

SessionsOfWeek(t, name) ==
    Cardinality({p \in EntryPlaces(t) : EntryAt(t, p).lecturer = name})

\* C5: in every Schedule the validator accepted, each lecturer teaches at most
\* max_daily sessions on any day and at most max_weekly sessions in the week.
C5_LecturerCaps ==
    \A t \in InitialPopulation \cup ReturnedSchedules :
        \A l \in Range(data.lecturers) :
            /\ \A day \in DAYS : SessionsOn(t, l.name, day) <= l.max_daily
            /\ SessionsOfWeek(t, l.name) <= l.max_weekly

\* C6: every Schedule of the population initialize_population returns
\* satisfies validate_hard_constraints; a failing candidate is dropped.
C6_PopulationValid ==
    \A t \in InitialPopulation : validate_hard_constraints(t, data)

\* initialize_population is about to return a population that lacks a
\* candidate it built: one was dropped, another kept.
C6_Witness ==
    /\ pc = "init_return"
    /\ population # <<>>
    /\ Len(population) < i

\* C7: the returned Schedule has a fitness at least that of every individual
\* of every generation evaluated during the run.
C7_BestEver ==
    \A t \in ReturnedSchedules :
        \A s \in evaluated : ScoreGe(Score(calculate_fitness(t, data)), s)

\* A Schedule was returned after two generations in which some individual
\* scored strictly less than it.
C7_Witness ==
    /\ IsSchedule(result)
    /\ generation >= 2
    /\ \E s \in evaluated : ScoreGt(Score(calculate_fitness(result, data)), s)

\* the coded modules, needing at least one session, no lecturer is qualified for
UnstaffedModules(d) ==
    {m.code : m \in {x \in Range(d.modules) :
        /\ x.code # ""
        /\ x.hours \div 2 > 0
        /\ \A l \in Range(d.lecturers) : x.code \notin l.modules}}

\* C8: when a module that needs sessions has no qualified lecturer, the run
\* ends with an initialization failure whose message names the module's code,
\* and no Schedule is returned.
C8_FailureNamesModule ==
    (pc = "done" /\ UnstaffedModules(data) # {}) =>
        /\ ~ IsSchedule(result)
        /\ init_error # <<>>
        /\ \A c \in UnstaffedModules(data) : c \in Range(init_error)

\* What does hold of that run: it fails, with the fixed message, and returns
\* no Schedule.
C8_FailureWithoutName ==
    (pc = "done" /\ UnstaffedModules(data) # {}) =>
        /\ ~ IsSchedule(result)
        /\ init_error = InitErrorMessage

\* some cell of t holds two entries whose modules share a target group
SharesGroupInCell(d, t) ==
    \E p, q \in EntryPlaces(t) :
        /\ p[1] = q[1] /\ p[2] = q[2] /\ p[3] # q[3]
        /\ \E m, n \in Range(d.modules) :
            /\ m.code = EntryAt(t, p).module
            /\ n.code = EntryAt(t, q).module
            /\ Range(m.target_groups) \cap Range(n.target_groups) # {}

\* C9: validate_hard_constraints returns False for every candidate in which
\* some cell holds two entries whose modules share a target group.
C9_GroupConflictRejected ==
    (pc = "validated" /\ SharesGroupInCell(data, candidate)) => verdict = "False"

\* The validator rejected a candidate whose only cell in use holds two
\* different modules, taught by different lecturers in different rooms, that
\* share a target group.
C9_Witness ==
    /\ pc = "validated"
    /\ verdict = "False"
    /\ SharesGroupInCell(data, candidate)
    /\ \E p, q \in EntryPlaces(candidate) :
        /\ p[1] = q[1] /\ p[2] = q[2] /\ p[3] # q[3]
        /\ EntryAt(candidate, p).module # EntryAt(candidate, q).module
        /\ EntryAt(candidate, p).lecturer # EntryAt(candidate, q).lecturer
        /\ EntryAt(candidate, p).room # EntryAt(candidate, q).room

\* the sessions the coded modules serving group g need in a week
RECURSIVE GroupDemand(_, _, _)
GroupDemand(d, g, j) ==
    IF j = 0 THEN 0
    ELSE GroupDemand(d, g, j - 1) +
         (IF d.modules[j].code # "" /\ g \in Range(d.modules[j].target_groups)
          THEN d.modules[j].hours \div 2 ELSE 0)

\* The consequence C9 draws for initialize_population: an input in which one
\* group needs more sessions than the week has cells ends in the
\* initialization failure and no population is returned.
C9_InfeasibleRaises ==
    (pc \in {"evaluate", "breed", "finish", "done"}
        /\ \E m \in Range(data.modules) : \E g \in Range(m.target_groups) :
                GroupDemand(data, g, Len(data.modules)) > NumDays * NumSlots)
    => (pc = "done" /\ init_error = InitErrorMessage /\ ~ IsSchedule(result))

\* the index cell agrees with the entries of the slot list that use the key
IndexAgrees(cell, modules) ==
    IF modules = {} THEN cell = None ELSE modules = {cell}

IndicesConsistent(d, t) ==
    \A day \in DAYS, slot \in TIME_SLOTS :
        LET es == Range(t.slots[day][slot])
        IN /\ \A l \in Range(d.lecturers) :
                IndexAgrees(t.lecturer_slots[l.id][day][slot],
                            {e.module : e \in {x \in es : x.lecturer = l.name}})
           /\ \A r \in Range(d.rooms) :
                IndexAgrees(t.room_slots[r.name][day][slot],
                            {e.module : e \in {x \in es : x.room = r.name}})

BredObjects == outcomes.plain \cup outcomes.mutated

\* the slot lists and the index dicts of the offspring are its own
OwnContainers(o) == \A day \in DAYS : o.owners[day] = 0

\* C11: the child that crossover returns, and mutate then possibly changes,
\* shares no storage with a parent: no entry record, no slot list and no
\* index structure of the child is an object of a parent.
C11_NoSharedStorage ==
    \A o \in BredObjects : OwnContainers(o) /\ o.entries = {}

\* The part of it that the code keeps: the slot lists and the index
\* structures of every child are fresh objects; only entry records are shared.
C11_FreshContainers ==
    \A o \in BredObjects : OwnContainers(o)

\* C12: building one offspring (two tournament selections, crossover, and
\* mutate or not) changes no individual of the current population and not
\* the best-so-far timetable: their slots, lecturer_slots and room_slots are
\* after the iteration what they were before it.
C12_ParentsUntouched ==
    [][pc = "breed" => population' = population /\ best_timetable' = best_timetable]_vars

\* mutate has changed a child that is now in the next population: the child
\* is none of the children crossover returns.
C12_Witness ==
    /\ pc \in {"breed", "evaluate", "finish"}
    /\ best_timetable # NoTimetable
    /\ \E j \in 1..Len(new_population) :
            new_population[j] \notin {o.t : o \in outcomes.plain}

(* ------------------------------ cancellation --------------------------- *)
\* C13: when the caller has set the cancellation flag during the run, the
\* driver sees it at the next generation boundary and stops: the step taken
\* at the head of a generation with the flag set scores no population and
\* starts no reproduction.
C13_CancelStops ==
    [][(cancel_generation /\ pc = "evaluate")
            => /\ pc' \notin {"evaluate", "breed"}
               /\ fitness_scores_batch' = fitness_scores_batch
               /\ evaluated' = evaluated]_vars

\* What the code does instead: the flag changes nothing in the engine, and a
\* run with the flag set still returns its best timetable.
C13_FlagIgnored ==
    [][cancel_generation' = cancel_generation \/ UNCHANGED <<pc, initVars, population, gaVars, result>>]_vars

(* ------------------------------- round trip ---------------------------- *)
\* C14: a timetable saved with save_timetable and read back with
\* get_timetable_by_id is structurally the timetable that was saved: the same
\* slots, lecturer_slots and room_slots, with the same keys and values.
C14_RoundTripIdentical ==
    pc = "loaded" => loaded = candidate

\* What comes back unchanged: the slots and room_slots, and the values of
\* lecturer_slots under the keys turned into str; identical when the ids
\* were str.
C14_RoundTripUpToKeys ==
    pc = "loaded" =>
        /\ loaded.slots = candidate.slots
        /\ loaded.room_slots = candidate.room_slots
        /\ DOMAIN loaded.lecturer_slots = {JsonKey(id) : id \in DOMAIN candidate.lecturer_slots}
        /\ \A id \in DOMAIN candidate.lecturer_slots :
                loaded.lecturer_slots[JsonKey(id)] = candidate.lecturer_slots[id]
        /\ data = DataK => loaded = candidate

(* ------------------------------- Scenario A ---------------------------- *)
\* the days on which t has an entry of the module
ModuleDays(t, code) == {c[1] : c \in ModuleCells(t, code)}

\* C15: for Scenario A (one module of two sessions a week, one lecturer, one
\* room of 50, one group of 30) generate_timetable never fails: it returns a
\* timetable with exactly two entries, both of the module with that lecturer
\* in that room, on two distinct days, which validate_hard_constraints accepts.
C15_ScenarioA ==
    data = DataA =>
        /\ init_error = <<>>
        /\ pc = "done" =>
            /\ IsSchedule(result)
            /\ Cardinality(EntryPlaces(result)) = 2
            /\ \A p \in EntryPlaces(result) : EntryAt(result, p) = Entry("M1", "Ann", "R1")
            /\ Cardinality(ModuleDays(result, "M1")) = 2
            /\ validate_hard_constraints(result, data)

\* generate_timetable has returned for Scenario A.
C15_Witness ==
    data = DataA /\ pc = "done" /\ IsSchedule(result)

(* ------------------------- generational replacement -------------------- *)
\* C16: the population advances every generation: the population that
\* generation g + 1 evaluates is the offspring that generation g built.
C16_PopulationAdvances ==
    [][(pc = "breed" /\ pc' = "evaluate") => population' = new_population']_vars

\* What the code does: while the loop runs, population is the initial
\* population; the offspring are assigned to it only after the loop.
C16_PopulationFixed ==
    [][(pc = "evaluate" \/ pc = "breed") => population' = population]_vars

(* ------------------------------ early stopping ------------------------- *)
\* a is strictly greater than b, float('-inf') below every number
StrictlyGreater(a, b) == a.fin /\ (~ b.fin \/ a.v > b.v)

\* C17: a generation whose best fitness is strictly greater than the best
\* so far sets the stagnation counter to 0, any other (a tie too) adds 1 to
\* it; the run stops as converged in the first generation in which the
\* counter reaches 20, and in no generation before.
C17_Stagnation ==
    [][pc = "evaluate" =>
        /\ generations_without_improvement' =
                IF \E j \in 1..Len(fitness_scores_batch') :
                        StrictlyGreater(fitness_scores_batch'[j], best_fitness)
                THEN 0 ELSE generations_without_improvement + 1
        /\ generations_without_improvement < STAGNATION_LIMIT
        /\ (pc' = "finish") = (generations_without_improvement' = STAGNATION_LIMIT)
        /\ pc' \in {"finish", "breed"}]_vars

\* The run has stopped early: the counter is at 20 and generations remain.
C17_Witness ==
    /\ pc = "finish"
    /\ generations_without_improvement = STAGNATION_LIMIT
    /\ generation + 1 < generations

(* --------------------------- faults of the fitness --------------------- *)
\* C18: when calculate_fitness raises for an individual, that individual is
\* scored float('-inf'), every other individual of the generation is scored
\* by calculate_fitness, and the run goes on.
C18_FaultIsolated ==
    [][pc = "evaluate" =>
        /\ Len(fitness_scores_batch') = Len(population)
        /\ \A j \in 1..Len(population) :
                fitness_scores_batch'[j] =
                    IF j \in raised' THEN NegInf
                    ELSE Score(calculate_fitness(population[j], data))
        /\ pc' = "breed"
        /\ result' = Running]_vars

\* calculate_fitness has raised for one of two individuals, and the
\* generation goes on to breed.
C18_Witness ==
    /\ pc = "breed"
    /\ Len(population) = 2
    /\ Cardinality(raised) = 1

(* ------------------------------- selection ----------------------------- *)
NonNull(pop) == {j \in 1..Len(pop) : pop[j] # NoTimetable}

Smaller(a, b) == IF a < b THEN a ELSE b

\* C19: given a fitness list as long as the population, tournament_selection
\* samples min(k, population size) pairwise distinct individuals and returns
\* a sampled individual whose fitness is at least that of every other
\* sampled one; with k at least the population size it returns an
\* individual of the greatest fitness of the population.
C19_TournamentWinner ==
    (/\ pc = "selected"
     /\ sel_population # <<>>
     /\ Len(sel_scores) = Len(sel_population)
     /\ NonNull(sel_population) = 1..Len(sel_population))
    => LET o == sel_outcome
           n == Len(sel_population)
       IN /\ o.branch = "tournament"
          /\ Len(o.sample) = Smaller(sel_size, n)
          /\ \A a \in 1..Len(o.sample) :
                /\ o.sample[a] \in 1..n
                /\ \A b \in 1..Len(o.sample) : a # b => o.sample[a] # o.sample[b]
                /\ ScoreGe(sel_scores[o.winner], sel_scores[o.sample[a]])
          /\ \E a \in 1..Len(o.sample) : o.winner = o.sample[a]
          /\ sel_size >= n => \A j \in 1..n : ScoreGe(sel_scores[o.winner], sel_scores[j])

\* A tournament of two among three scored timetables has returned one.
C19_Witness ==
    /\ pc = "selected"
    /\ Len(sel_population) = 3
    /\ Len(sel_scores) = 3
    /\ NonNull(sel_population) = 1..3
    /\ sel_size = 2
    /\ sel_outcome.branch = "tournament"
    /\ sel_scores[sel_outcome.winner] = Score(2)

\* C20: tournament_selection falls back to a uniform random choice among
\* the non-null individuals whenever the fitness list is malformed (shorter
\* than the population, or empty), and raises only when no individual is
\* non-null.
C20_MalformedFallsBack ==
    pc = "selected" =>
        /\ (sel_outcome.branch = "raise") = (NonNull(sel_population) = {})
        /\ (Len(sel_scores) < Len(sel_population) /\ NonNull(sel_population) # {})
                => /\ sel_outcome.branch = "fallback"
                   /\ sel_outcome.winner \in NonNull(sel_population)

\* What the code does: it falls back exactly when no individual is both
\* scored and non-null, and runs the tournament among the scored ones
\* otherwise; it raises only when no individual is non-null.
C20_FallsBackWhenNoneScored ==
    pc = "selected" =>
        LET scored == {j \in NonNull(sel_population) : j <= Len(sel_scores)}
        IN /\ (sel_outcome.branch = "raise") = (NonNull(sel_population) = {})
           /\ (sel_outcome.branch = "fallback") = (scored = {} /\ NonNull(sel_population) # {})
           /\ sel_outcome.branch = "fallback" => sel_outcome.winner \in NonNull(sel_population)
           /\ sel_outcome.branch = "tournament" => sel_outcome.winner \in scored

(* --------------------------- crossover children ------------------------ *)
\* the number of entries of the module in t
SessionCount(t, code) ==
    Cardinality({p \in EntryPlaces(t) : EntryAt(t, p).module = code})

\* hours(m) / 2, for the module of the code
HalfHours(d, code) == ModuleHours(d.modules[ModuleIdx(d, code)]) \div 2

\* C21: for any two parents, the child that crossover returns has, for every
\* module, at most hours / 2 entries of it.
C21_ChildWithinQuota ==
    pc = "crossed" =>
        \A code \in ModuleCodes(data) : SessionCount(child, code) <= HalfHours(data, code)

\* A parent held two sessions of a one-session module, on two days, and the
\* child took one of them.
C21_Witness ==
    /\ pc = "crossed"
    /\ SessionCount(parent1, "P2") = 2
    /\ Cardinality({p[1] : p \in EntryPlaces(parent1)}) = 2
    /\ SessionCount(child, "P2") = 1

\* C22: for any two parents, parents with a student-group conflict in a cell
\* included, no cell of the child of crossover holds two entries whose
\* modules share a target group.
C22_ChildGroupConflictFree ==
    pc = "crossed" => ~ SharesGroupInCell(data, child)

\* What the code does keep out of a cell of the child: a second entry of a
\* module, of a lecturer, or of a room.
C22_ChildCellsDistinct ==
    pc = "crossed" =>
        \A p, q \in EntryPlaces(child) :
            (p[1] = q[1] /\ p[2] = q[2] /\ p[3] # q[3]) =>
                /\ EntryAt(child, p).module # EntryAt(child, q).module
                /\ EntryAt(child, p).lecturer # EntryAt(child, q).lecturer
                /\ EntryAt(child, p).room # EntryAt(child, q).room

\* some module has fewer sessions in t than its hours / 2
UnderScheduled(d, t) ==
    \E code \in ModuleCodes(d) : SessionCount(t, code) < HalfHours(d, code)

\* every entry of the child is an entry of the same cell of a parent
OnlyCopies(c, p1, p2) ==
    \A p \in EntryPlaces(c) :
        EntryAt(c, p) \in Range(p1.slots[p[1]][p[2]]) \cup Range(p2.slots[p[1]][p[2]])

\* C23: crossover performs no repair and can under-schedule: the child of
\* two parents that both pass validate_hard_constraints holds nothing but
\* entries copied from the parents' cells, and when some module has fewer
\* than hours / 2 sessions in it, it fails validate_hard_constraints and is
\* returned all the same.
C23_NoRepair ==
    (/\ pc = "crossed"
     /\ validate_hard_constraints(parent1, data)
     /\ validate_hard_constraints(parent2, data))
    => /\ IsSchedule(child)
       /\ OnlyCopies(child, parent1, parent2)
       /\ UnderScheduled(data, child) => ~ validate_hard_constraints(child, data)

\* Two parents that pass the validator have a child in which a module has
\* no session.
C23_Witness ==
    /\ pc = "crossed"
    /\ validate_hard_constraints(parent1, data)
    /\ validate_hard_constraints(parent2, data)
    /\ UnderScheduled(data, child)
    /\ ~ validate_hard_constraints(child, data)

(* ------------------------------- mutation ------------------------------ *)
\* the (module, lecturer, room) triples that mutate can put into the cell of
\* the cleared timetable c
MutateTriples(d, c, day, slot) ==
    {x \in MutateAvailableModules(d, c) \X (1..Len(d.lecturers)) \X (1..Len(d.rooms)) :
        /\ ~ \E s \in TIME_SLOTS : CellHasModule(c, day, s, d.modules[x[1]].code)
        /\ ~ MutateGroupClash(d, c, d.modules[x[1]], day, slot)
        /\ x[2] \in MutateAvailableLecturers(d, c, d.modules[x[1]], day, slot)
        /\ x[3] \in MutateAvailableRooms(d, c, d.modules[x[1]], day, slot)}

\* C24: one call of mutate changes only the chosen cell and the index slots
\* of that cell: every other cell of slots, lecturer_slots and room_slots is
\* as before; after the call the chosen cell holds at most one entry, and
\* none when no module, lecturer and room can be put there.
C24_MutateFrame ==
    pc = "mutated" =>
        LET day == chosen_cell[1]
            slot == chosen_cell[2]
        IN /\ \A c \in DAYS \X TIME_SLOTS :
                c # chosen_cell =>
                    /\ mutated.slots[c[1]][c[2]] = child.slots[c[1]][c[2]]
                    /\ \A id \in DOMAIN child.lecturer_slots :
                            mutated.lecturer_slots[id][c[1]][c[2]] =
                                child.lecturer_slots[id][c[1]][c[2]]
                    /\ \A r \in DOMAIN child.room_slots :
                            mutated.room_slots[r][c[1]][c[2]] = child.room_slots[r][c[1]][c[2]]
           /\ DOMAIN mutated.lecturer_slots = DOMAIN child.lecturer_slots
           /\ DOMAIN mutated.room_slots = DOMAIN child.room_slots
           /\ Len(mutated.slots[day][slot]) <= 1
           /\ MutateTriples(data, ClearCell(child, data, day, slot), day, slot) = {}
                => mutated.slots[day][slot] = <<>>

\* mutate has cleared a cell of two entries and put one entry there.
C24_Witness ==
    /\ pc = "mutated"
    /\ Len(child.slots[chosen_cell[1]][chosen_cell[2]]) = 2
    /\ Len(mutated.slots[chosen_cell[1]][chosen_cell[2]]) = 1

\* the number of entries of t
TotalSessions(t) == Cardinality(EntryPlaces(t))

DailySessionsOf(d, t) ==
    [code \in ModuleCodes(d) |->
        [day \in DAYS |-> Cardinality({s \in TIME_SLOTS : CellHasModule(t, day, s, code)})]]

\* the (lecturer, room) placements of module m in the cell that mutate accepts
MutateAccepts(d, c, m, day, slot) ==
    IF \/ \E s \in TIME_SLOTS : CellHasModule(c, day, s, m.code)
       \/ MutateGroupClash(d, c, m, day, slot)
    THEN {}
    ELSE MutateAvailableLecturers(d, c, m, day, slot) \X MutateAvailableRooms(d, c, m, day, slot)

\* the (lecturer, room) placements of module m in the cell that the checks of
\* initialize_population accept
InitAccepts(d, c, m, day, slot) ==
    IF <<day, slot>> \in AvailableSlots(d, c, DailySessionsOf(d, c), m)
    THEN AvailableLecturers(d, c, m, day, slot) \X AvailableRooms(d, c, m, day, slot)
    ELSE {}

\* C26: for the same timetable, cell and under-scheduled module, mutate
\* accepts a lecturer and a room exactly when the feasibility checks of
\* initialize_population accept them.
C26_SameFeasibility ==
    pc = "mutated" =>
        LET day == chosen_cell[1]
            slot == chosen_cell[2]
            c == ClearCell(child, data, day, slot)
        IN \A mi \in MutateAvailableModules(data, c) :
                MutateAccepts(data, c, data.modules[mi], day, slot)
                    = InitAccepts(data, c, data.modules[mi], day, slot)

\* What holds of the two: mutate accepts nothing that initialize_population
\* would refuse.
C26_MutateStricter ==
    pc = "mutated" =>
        LET day == chosen_cell[1]
            slot == chosen_cell[2]
            c == ClearCell(child, data, day, slot)
        IN \A mi \in MutateAvailableModules(data, c) :
                MutateAccepts(data, c, data.modules[mi], day, slot)
                    \subseteq InitAccepts(data, c, data.modules[mi], day, slot)

(* --------------------- session counts of the evaluator ----------------- *)
\* C27: calculate_fitness applies no session-count mismatch penalty to a
\* timetable that validate_hard_constraints accepts: the count it compares
\* each module against is the hours / 2 that the validator enforces.
C27_NoMismatchPenalty ==
    (pc = "validated" /\ verdict = "True") =>
        \A code \in ModuleCodes(data) \ {""} : SessionMismatchPenalty(candidate, code) = 0

\* What holds: the evaluator compares against SESSIONS_PER_MODULE, so an
\* accepted timetable is penalised for exactly its modules whose hours / 2
\* is another number, by 100 for every session of difference.
C27_PenaltyAgainstConstant ==
    (pc = "validated" /\ verdict = "True") =>
        \A code \in ModuleCodes(data) \ {""} :
            SessionMismatchPenalty(candidate, code) =
                100 * (IF HalfHours(data, code) < SESSIONS_PER_MODULE
                       THEN SESSIONS_PER_MODULE - HalfHours(data, code)
                       ELSE HalfHours(data, code) - SESSIONS_PER_MODULE)

(* ------------------------------ termination ---------------------------- *)
\* C28: generate_timetable terminates on every input: a module gets at
\* most max_attempts placement attempts each time it is tried, the loop
\* over the generations runs at most GENERATIONS times, and the run ends
\* failed (no valid initial timetable), converged (stagnation at the limit)
\* or exhausted (every generation done).
C28_Terminates ==
    /\ [](/\ scheduling_attempts <= max_attempts
          /\ generation <= generations
          /\ pc = "done" =>
                \/ init_error = InitErrorMessage
                \/ generations_without_improvement >= STAGNATION_LIMIT
                \/ generation = generations)
    /\ <>(pc = "done")

\* A module that cannot be placed has had all its attempts.
C28_Witness ==
    /\ pc = "init"
    /\ scheduling_attempts = max_attempts
    /\ AvailableSlots(data, timetable, module_daily_sessions, CurrentModule) = {}

(* ----------------------- sequences of operator calls ------------------- *)
\* no module has more than hours / 2 sessions, or two sessions on a day
WithinQuotaAndDaily(d, t) ==
    \A code \in ModuleCodes(d) :
        /\ SessionCount(t, code) <= HalfHours(d, code)
        /\ \A day \in DAYS :
            Cardinality({p \in EntryPlaces(t) : p[1] = day /\ EntryAt(t, p).module = code}) <= 1

\* C29: from schedules that validate_hard_constraints accepts, every
\* schedule that a sequence of crossover and mutate calls produces has, for
\* every module, at most hours / 2 sessions and at most one session a day.
C29_NeverOverScheduled ==
    /\ WithinQuotaAndDaily(data, parent1)
    /\ WithinQuotaAndDaily(data, parent2)

\* mutate has left a schedule that lacks a session of a module: the
\* operators under-schedule.
C29_Witness ==
    /\ pc = "op_mutate"
    /\ UnderScheduled(data, parent1)
    /\ SessionCount(parent2, "P1") = 2

(* ------------------------- genetic_algorithm.py ------------------------ *)
\* two entry dicts of the schedule have the same (room, day, time)
GADoubleBooked(s, h) ==
    \E a \in s, b \in s : a # b /\ GAKey(h, a) = GAKey(h, b)

\* C30: in generate_timetable of genetic_algorithm.py no schedule of a
\* generation's population, the elites carried over included, ever has two
\* entries with the same (room, day, time).
C30_NoRoomDoubleBooking ==
    \A s \in GAMembers(population) \cup GAMembers(new_population) :
        ~ GADoubleBooked(s, entry_objects)

\* The population that initialize_population returns has no such entries.
C30_InitialPopulationClean ==
    (pc = "ga_sort" /\ generation = 0) =>
        \A s \in GAMembers(population) : ~ GADoubleBooked(s, entry_objects)

\* An elite of the first generation, carried over into the population of
\* the next, has two entries in one room at one time.
C30_ElitesDoubleBooked ==
    /\ pc = "ga_sort"
    /\ generation = 1
    /\ \E j \in 1..Len(population.list) : GADoubleBooked(population.list[j], entry_objects)

====
